---- MODULE Spec2Model ----
(***************************************************************************)
(* The configuration store of config_state.py (the same code is inlined in *)
(* main.py): the module globals DEFAULT_CONFIG, CONFIG and CONFIG_LOCK,    *)
(* the persisted file config.json, and load_config / save_config /         *)
(* get_config / update_config / _deep_update, with the threads that call   *)
(* them.                                                                   *)
(*                                                                         *)
(* Python objects live on a heap of addressed objects, so that sharing of  *)
(* a dict or list between two owners is part of the state.  A JSON text,   *)
(* and the content of a tree irrespective of object identity, is a Tree.   *)
(***************************************************************************)
EXTENDS Integers, Sequences, FiniteSets, TLC

(***************************************************************************)
(* Bounds of the model.                                                    *)
(***************************************************************************)
MaxCalls   == 3     \* calls of get_config and update_config in one run
MaxUpdates == 2     \* the update_config calls among them
MaxDepth   == 2     \* nesting depth of the trees given to _deep_update on its own
MaxStarts  == 2     \* start() calls on the producers in one run
MaxNap     == 2     \* the longest refresh_s of a consumer, in seconds
MaxRefresh == 3     \* the longest weather.refresh_s, in sleeps of the polling loop
MaxLoads   == 2     \* start_loading calls on the PiOLED in one run

\* The threads that use the store: two request handlers of the threaded web
\* server, each serving GET / (get_config) or POST /save (update_config).
Threads == {1, 2}

(***************************************************************************)
(* Trees: the content of a JSON value.  A scalar is its JSON literal.      *)
(***************************************************************************)
S(x) == [t |-> "s", s |-> x,  l |-> <<>>, d |-> <<>>]
L(q) == [t |-> "l", s |-> "", l |-> q,    d |-> <<>>]
D(f) == [t |-> "d", s |-> "", l |-> <<>>, d |-> f]

\* DEFAULT_CONFIG, restricted to the keys the model follows: one section
\* with a list, one section with two scalars.
DefaultTree ==
    D( "terminal" :> D("colors" :> L(<<"91m", "92m">>))
    @@ "weather"  :> D("latitude" :> S("37.7749") @@ "units" :> S("imperial")) )

(***************************************************************************)
(* The heap.  An object is named by where it was created: the allocation   *)
(* site, the serial number of the call that created it and its key path in *)
(* the tree created there.  A value held in a variable or a dict slot is a *)
(* scalar or a reference to an object.                                     *)
(***************************************************************************)
Addr(site, n) == [site |-> site, n |-> n, path |-> <<>>]
Sub(a, k)     == [a EXCEPT !.path = Append(@, k)]
NoAddr        == Addr("", 0)

Scalar(x) == [ref |-> NoAddr, s |-> x]
Ref(a)    == [ref |-> a, s |-> ""]
None      == Scalar("None")

DictObj(f) == [kind |-> "dict", items |-> f,    elems |-> <<>>]
ListObj(q) == [kind |-> "list", items |-> <<>>, elems |-> q]

IsObj(v)     == v.ref # NoAddr
IsDict(h, v) == IsObj(v) /\ h[v.ref].kind = "dict"

RECURSIVE TreeOf(_, _)
\* The content of value v: what json.dump writes for it.
TreeOf(h, v) ==
    IF ~IsObj(v) THEN S(v.s)
    ELSE IF h[v.ref].kind = "list" THEN L(h[v.ref].elems)
    ELSE D([k \in DOMAIN h[v.ref].items |-> TreeOf(h, h[v.ref].items[k])])

\* The union of the heaps f(k), k in ks, whose addresses are disjoint.
Join(ks, f(_)) ==
    [x \in UNION {DOMAIN f(k) : k \in ks} |-> f(CHOOSE k \in ks : x \in DOMAIN f(k))[x]]

\* The value for tree tr when its object, if it needs one, is at address a.
ValAt(tr, a) == IF tr.t = "s" THEN Scalar(tr.s) ELSE Ref(a)

RECURSIVE TreeObjs(_, _)
\* The objects of tree tr, the root at address a.
TreeObjs(tr, a) ==
    IF tr.t = "s" THEN <<>>
    ELSE IF tr.t = "l" THEN a :> ListObj(tr.l)
    ELSE LET kid(k) == TreeObjs(tr.d[k], Sub(a, k))
         IN  (a :> DictObj([k \in DOMAIN tr.d |-> ValAt(tr.d[k], Sub(a, k))]))
             @@ Join(DOMAIN tr.d, kid)

\* Fresh objects for a tree: json.load of a text, or the evaluation of a
\* dict display.  [h |-> the new heap, v |-> the value].
Build(h, tr, a) == [h |-> TreeObjs(tr, a) @@ h, v |-> ValAt(tr, a)]

\* copy.copy: a new top-level object whose slots hold the same values.
ShallowCopy(h, v, a) ==
    IF ~IsObj(v) THEN [h |-> h, v |-> v]
    ELSE [h |-> (a :> h[v.ref]) @@ h, v |-> Ref(a)]

RECURSIVE CopyObjs(_, _, _)
\* The objects copy.deepcopy creates for v, the copy of v at address a.
CopyObjs(h, v, a) ==
    IF ~IsObj(v) THEN <<>>
    ELSE IF h[v.ref].kind = "list" THEN a :> ListObj(h[v.ref].elems)
    ELSE LET src    == h[v.ref].items
             kid(k) == CopyObjs(h, src[k], Sub(a, k))
         IN  (a :> DictObj([k \in DOMAIN src |->
                              IF IsObj(src[k]) THEN Ref(Sub(a, k)) ELSE src[k]]))
             @@ Join(DOMAIN src, kid)

\* copy.deepcopy: a scalar is kept, a list or dict is copied with copies of
\* its slots.  (deepcopy's memo only matters for an object reachable twice
\* from v; the trees copied here, DEFAULT_CONFIG and CONFIG, have none.)
DeepCopy(h, v, a) ==
    [h |-> CopyObjs(h, v, a) @@ h, v |-> IF IsObj(v) THEN Ref(a) ELSE v]

RECURSIVE Reach(_, _, _)
\* Addresses reachable from the addresses in todo.
Reach(h, todo, seen) ==
    IF todo = {} THEN seen
    ELSE LET a == CHOOSE x \in todo : TRUE
             kids == IF h[a].kind = "dict"
                     THEN {h[a].items[k].ref : k \in DOMAIN h[a].items} \ {NoAddr}
                     ELSE {}
         IN  Reach(h, (todo \cup kids) \ (seen \cup {a}), seen \cup {a})

\* Reference counting: an object no root reaches is freed.
Collect(h, roots) ==
    LET live == Reach(h, {v.ref : v \in roots} \ {NoAddr}, {})
    IN  [a \in live |-> h[a]]

(***************************************************************************)
(* _deep_update, one loop iteration at a time.  A frame is an activation   *)
(* of _deep_update: its target, its updates and the keys of updates.items()*)
(* still to visit.                                                         *)
(***************************************************************************)
Frame(target, updates, todo) == [target |-> target, updates |-> updates, todo |-> todo]

RECURSIVE Unwind(_)
\* Activations whose loop is over return.
Unwind(st) == IF st # <<>> /\ st[Len(st)].todo = {}
              THEN Unwind(SubSeq(st, 1, Len(st) - 1)) ELSE st

\* _deep_update(target, updates) is called.
Enter(h, st, target, updates) ==
    Unwind(Append(st, Frame(target, updates, DOMAIN h[updates].items)))

\* The loop body as `target[key] = value` alone: no recursion into a dict.
DeepUpdateShallow(h, st, k) ==
    LET top  == st[Len(st)]
        rest == [st EXCEPT ![Len(st)].todo = @ \ {k}]
    IN  [h  |-> [h EXCEPT ![top.target].items = (k :> h[top.updates].items[k]) @@ @],
         st |-> Unwind(rest)]

\* The loop body with `target.setdefault(key, value)` for the assignment.
DeepUpdateKeepsOld(h, st, k) ==
    LET top   == st[Len(st)]
        value == h[top.updates].items[k]
        old   == IF k \in DOMAIN h[top.target].items
                 THEN h[top.target].items[k] ELSE None
        rest  == [st EXCEPT ![Len(st)].todo = @ \ {k}]
    IN  IF IsDict(h, value) /\ IsDict(h, old)
        THEN [h |-> h, st |-> Enter(h, rest, old.ref, value.ref)]
        ELSE [h  |-> [h EXCEPT ![top.target].items = @ @@ (k :> value)],
              st |-> Unwind(rest)]

\* A scalar or a list given for a key that holds a map is dropped.
DeepUpdateKeepsMaps(h, st, k) ==
    LET top   == st[Len(st)]
        value == h[top.updates].items[k]
        old   == IF k \in DOMAIN h[top.target].items
                 THEN h[top.target].items[k] ELSE None
        rest  == [st EXCEPT ![Len(st)].todo = @ \ {k}]
    IN  IF IsDict(h, value) /\ IsDict(h, old)
        THEN [h |-> h, st |-> Enter(h, rest, old.ref, value.ref)]
        ELSE IF IsDict(h, old)
        THEN [h |-> h, st |-> Unwind(rest)]
        ELSE [h  |-> [h EXCEPT ![top.target].items = (k :> value) @@ @],
              st |-> Unwind(rest)]

\* A list given for a key that holds a list is appended to it.
DeepUpdateAppendsLists(h, st, k) ==
    LET top   == st[Len(st)]
        value == h[top.updates].items[k]
        old   == IF k \in DOMAIN h[top.target].items
                 THEN h[top.target].items[k] ELSE None
        rest  == [st EXCEPT ![Len(st)].todo = @ \ {k}]
        isList(v) == IsObj(v) /\ h[v.ref].kind = "list"
    IN  IF IsDict(h, value) /\ IsDict(h, old)
        THEN [h |-> h, st |-> Enter(h, rest, old.ref, value.ref)]
        ELSE IF isList(value) /\ isList(old)
        THEN [h  |-> [h EXCEPT ![old.ref].elems = @ \o h[value.ref].elems],
              st |-> Unwind(rest)]
        ELSE [h  |-> [h EXCEPT ![top.target].items = (k :> value) @@ @],
              st |-> Unwind(rest)]

\* A list given for a key that holds a list is merged into it by index: the
\* stored list keeps its elements beyond the length of the new one.
DeepUpdateMergesLists(h, st, k) ==
    LET top   == st[Len(st)]
        value == h[top.updates].items[k]
        old   == IF k \in DOMAIN h[top.target].items
                 THEN h[top.target].items[k] ELSE None
        rest  == [st EXCEPT ![Len(st)].todo = @ \ {k}]
        isList(v) == IsObj(v) /\ h[v.ref].kind = "list"
    IN  IF IsDict(h, value) /\ IsDict(h, old)
        THEN [h |-> h, st |-> Enter(h, rest, old.ref, value.ref)]
        ELSE IF isList(value) /\ isList(old)
        THEN [h  |-> [h EXCEPT ![old.ref].elems =
                        h[value.ref].elems \o SubSeq(@, Len(h[value.ref].elems) + 1, Len(@))],
              st |-> Unwind(rest)]
        ELSE [h  |-> [h EXCEPT ![top.target].items = (k :> value) @@ @],
              st |-> Unwind(rest)]

\* The loop body for key k of the innermost activation.
DeepUpdateStep(h, st, k) ==
    LET top   == st[Len(st)]
        value == h[top.updates].items[k]
        old   == IF k \in DOMAIN h[top.target].items
                 THEN h[top.target].items[k] ELSE None
        rest  == [st EXCEPT ![Len(st)].todo = @ \ {k}]
    IN  IF IsDict(h, value) /\ IsDict(h, old)
        THEN [h |-> h, st |-> Enter(h, rest, old.ref, value.ref)]
        ELSE [h  |-> [h EXCEPT ![top.target].items = (k :> value) @@ @],
              st |-> Unwind(rest)]

RECURSIVE DeepUpdateRun(_, _)
\* _deep_update run to completion by one thread with no other running.
DeepUpdateRun(h, st) ==
    IF st = <<>> THEN h
    ELSE LET r == DeepUpdateStep(h, st, CHOOSE k \in st[Len(st)].todo : TRUE)
         IN  DeepUpdateRun(r.h, r.st)

\* A caller's in-place change of every mutable part of the tree it holds in
\* v: o["x"] = "X" for each dict o of it, o.append("X") for each list.
MutateAll(h, v) ==
    LET mine == Reach(h, {v.ref} \ {NoAddr}, {}) IN
    [a \in DOMAIN h |->
        IF a \notin mine THEN h[a]
        ELSE IF h[a].kind = "dict"
             THEN [h[a] EXCEPT !.items = ("x" :> Scalar("X")) @@ @]
             ELSE [h[a] EXCEPT !.elems = Append(@, "X")]]

(***************************************************************************)
(* Inputs.                                                                 *)
(***************************************************************************)
\* Arguments of update_config: partial trees of the default shape, a list
\* replaced, a new section, and values whose type differs from the stored one.
Patches ==
    { D(<<>>),
      D("terminal" :> D("colors" :> L(<<"97m">>)) @@ "weather" :> D("units" :> S("metric"))),
      D("terminal" :> D("colors" :> L(<<>>))
        @@ "weather" :> D("latitude" :> S("0.0") @@ "units" :> S("standard"))),
      D("speech" :> D("enabled" :> S("true"))),
      D("weather" :> S("off")) }

\* config.json when the process starts.
Absent  == [kind |-> "absent",  tree |-> S("")]
Corrupt == [kind |-> "corrupt", tree |-> S("")]
Json(tr) == [kind |-> "json", tree |-> tr]

InitFiles ==
    { Absent, Corrupt, Json(S("7")), Json(L(<<"91m">>)),
      Json(D("weather" :> D("units" :> S("metric")))),
      Json(D("weather" :> S("off") @@ "speech" :> D("enabled" :> S("true")))),
      Json(D("weather" :> D("units" :> D("si" :> S("true"))))) }

(***************************************************************************)
(* State.                                                                  *)
(***************************************************************************)
VARIABLES
    heap,       \* the objects of the process
    CONFIG,     \* config_state.CONFIG: the value bound to the global
    file,       \* config.json
    boot,       \* main(): "start", "loaded", "running"; "load_raised" and
                \* "crashed" when load_config or save_config raised
    lock,       \* CONFIG_LOCK: the threads inside a `with CONFIG_LOCK` block
    pc,         \* each thread's position
    patch,      \* each thread's patch argument
    snap,       \* each thread's value returned by get_config
    stack,      \* each thread's activations of _deep_update
    ncalls,     \* calls made so far
    nupd,       \* update_config calls made so far
    loaded,     \* history: the tree load_config returned
    applied,    \* history: the patches, in the order the lock was acquired
    done,       \* history: the update_config calls that have ended
    preTree,    \* history: the stored tree when the last update took the lock
    startDone,  \* history: done when the thread's get_config was called
    snapLo,     \* history: done when the thread's snapshot was copied
    snapHi,     \* history: Len(applied) when the thread's snapshot was copied
    failed,     \* history: a save_config inside update_config has raised
    wcfg,       \* the weather section of the stored tree: enabled, refresh_s
    scfg,       \* the speech section of the stored tree: enabled
    stopEv,     \* each producer's _stop event
    thread,     \* each producer's _thread: the index of its task, 0 for None
    tasks,      \* each producer's threads running _run, in order of creation
    nstart,     \* start() calls made on each producer
    summary,    \* WeatherProvider._summary
    age,        \* time.time() - WeatherProvider._last_update, in seconds
    sinceAttempt, \* history: seconds since the last fetch was begun
    lastFailed, \* history: the last fetch that ended gave no report
    mpc,        \* the main thread's position in main(), start() and stop()
    status,     \* the process: "running", or how it ended: "zero", "nonzero"
    running,    \* CombinedDisplay.running
    started,    \* history: what start() has started, in order
    stopCalls,  \* history: calls of CombinedDisplay.stop() begun
    via,        \* where the stop() under way was called from
    escaped,    \* history: the exception that has left start(), if any
    servers,    \* the control-plane servers whose thread is started
    isActive,   \* OLEDDisplay.is_active
    cons,       \* the render threads: position, part, what the frame used
    ucfg,       \* the terminal and oled sections of the stored tree
    cleaned,    \* history: stop() of the consumer has run
    waited,     \* seconds the join under way has waited
    slock,      \* WeatherProvider._lock: the threads inside `with self._lock`
    wout,       \* how the fetch ended whose result is being published
    form,       \* the form fields of the POST /save under way
    sent,       \* the patch save() gave to update_config
    reply,      \* the response of POST /save
    ldActive,   \* PiOLED._loading_active
    ldStop,     \* PiOLED._loading_stop
    ldThread,   \* PiOLED._loading_thread: the index of the thread, 0 for None
    anim,       \* the threads running animate(), in order of creation
    ldpc,       \* the caller of start_loading and stop_loading: its position
    nload       \* start_loading calls made

\* The state of the producers (weather.py, ribbon/speech.py).
prod == <<wcfg, scfg, stopEv, thread, tasks, nstart, summary, age,
          sinceAttempt, lastFailed>>

\* The state of the config store (config_state.py) and of its callers.
store == <<heap, CONFIG, file, boot, lock, pc, patch, snap, stack, ncalls, nupd,
           loaded, applied, done, preTree, startDone, snapLo, snapHi, failed>>

vars == <<heap, CONFIG, file, boot, lock, pc, patch, snap, stack, ncalls, nupd,
          loaded, applied, done, preTree, startDone, snapLo, snapHi, failed,
          wcfg, scfg, stopEv, thread, tasks, nstart, summary, age,
          sinceAttempt, lastFailed,
          mpc, status, running, started, stopCalls, via, escaped, servers,
          isActive, cons, ucfg, cleaned, waited, slock, wout, form, sent, reply,
          ldActive, ldStop, ldThread, anim, ldpc, nload>>

\* The state of the coordinator, the consumers and the control plane
\* (ribbon/app.py, ribbon/ui_terminal.py, ribbon/ui_oled.py, web_config.py).
app == <<mpc, status, running, started, stopCalls, via, escaped, servers,
         isActive, cons, ucfg, cleaned, waited, slock, wout, form, sent, reply,
         ldActive, ldStop, ldThread, anim, ldpc, nload>>

\* The loading animation of PiOLED (small.py).
load == <<ldActive, ldStop, ldThread, anim, ldpc, nload>>

calls == <<ncalls, nupd>>

hist == <<loaded, applied, done, preTree, startDone, snapLo, snapHi, failed>>

DEFAULT_CONFIG == Ref(Addr("DEFAULT_CONFIG", 0))

\* What keeps an object alive.
Roots(cfg, pt, sn, st) ==
    {DEFAULT_CONFIG, cfg} \cup {pt[t] : t \in Threads} \cup {sn[t] : t \in Threads}
    \cup UNION { UNION { {Ref(st[t][i].target), Ref(st[t][i].updates)} : i \in 1..Len(st[t]) }
                 : t \in Threads }

\* The producers: the WeatherProvider and the SpeechListener of the display.
Producers == {"weather", "speech"}

\* time.sleep(5) of the weather loop; time is counted in steps of one sleep.
SleepS == 5

\* The values of weather.refresh_s, and the elapsed time from which every
\* one of them has passed: elapsed times are counted up to it.
RefreshS == {SleepS * k : k \in 1..MaxRefresh}
Cap == SleepS * MaxRefresh
Sat(x) == IF x > Cap THEN Cap ELSE x

\* The sentinels, and a report of the weather service.
UNAVAILABLE == "Weather: --"
DISABLED    == "Weather: off"
Report      == "72F Clear"

\* WeatherProvider() and SpeechListener() as __init__ leaves them; time.time()
\* is far beyond _last_update = 0.
ProducersBuilt ==
    /\ stopEv = [p \in Producers |-> FALSE]
    /\ thread = [p \in Producers |-> 0]
    /\ tasks = [p \in Producers |-> <<>>]
    /\ nstart = [p \in Producers |-> 0]
    /\ summary = UNAVAILABLE
    /\ age = Cap
    /\ sinceAttempt = Cap
    /\ lastFailed = FALSE

\* The store on its own: no producer is started.
ProducersNotBuilt ==
    /\ wcfg = [enabled |-> TRUE, refresh_s |-> Cap]
    /\ scfg = [enabled |-> FALSE]
    /\ ProducersBuilt

\* The consumers: the TerminalUI and the OLEDDisplay of the display.
Consumers == {"terminal", "oled"}

\* A render thread: pc is "none" before the thread is started; k counts the
\* parts of the frame drawn; seen holds the styles the frame was drawn with;
\* nap is what is left of its time.sleep.
Consumer(at) == [pc |-> at, k |-> 0, seen |-> {}, nap |-> 0]

\* The store and the producers on their own: main() has not built the
\* display, and no request is under way.
\* PiOLED.__init__: no animation, no thread, the event clear; nobody is
\* inside start_loading or stop_loading.
PiOLEDBuilt ==
    /\ ldActive = FALSE
    /\ ldStop = FALSE
    /\ ldThread = 0
    /\ anim = <<>>
    /\ ldpc = [at |-> "idle", slow |-> FALSE]
    /\ nload = 0

AppNotBuilt ==
    /\ PiOLEDBuilt
    /\ mpc = "main"
    /\ status = "running"
    /\ running = FALSE
    /\ started = <<>>
    /\ stopCalls = 0
    /\ via = "none"
    /\ escaped = "none"
    /\ servers = {}
    /\ isActive = FALSE
    /\ cons = [c \in Consumers |-> Consumer("none")]
    /\ ucfg = [c \in Consumers |-> [style |-> "a", refresh_s |-> 1]]
    /\ cleaned = [c \in Consumers |-> FALSE]
    /\ waited = 0
    /\ slock = {}
    /\ wout = "none"
    /\ form = <<>>
    /\ sent = <<>>
    /\ reply = "none"

\* The module is imported: DEFAULT_CONFIG is built and CONFIG = {}.
Init ==
    /\ file \in InitFiles
    /\ LET d == Build(<<>>, DefaultTree, DEFAULT_CONFIG.ref)
           c == Build(d.h, D(<<>>), Addr("CONFIG", 0))
       IN  heap = c.h /\ CONFIG = c.v
    /\ boot = "start"
    /\ lock = {}
    /\ pc = [t \in Threads |-> "idle"]
    /\ patch = [t \in Threads |-> None]
    /\ snap = [t \in Threads |-> None]
    /\ stack = [t \in Threads |-> <<>>]
    /\ ncalls = 0 /\ nupd = 0
    /\ loaded = D(<<>>)
    /\ applied = <<>>
    /\ done = 0
    /\ preTree = D(<<>>)
    /\ startDone = [t \in Threads |-> 0]
    /\ snapLo = [t \in Threads |-> 0]
    /\ snapHi = [t \in Threads |-> 0]
    /\ failed = FALSE
    /\ ProducersNotBuilt
    /\ AppNotBuilt

(***************************************************************************)
(* load_config and save_config.                                            *)
(***************************************************************************)
\* What the try block of load_config raises: json.load on a text that is no
\* JSON, updates.items() on a value that is no dict.
LoadError(f) ==
    IF f.kind = "corrupt" THEN "JSONDecodeError"
    ELSE IF f.tree.t # "d" THEN "AttributeError"
    ELSE "none"

CaughtJsonOnly(e) == e = "JSONDecodeError"

\* `except Exception` catches every error of the try block.
Caught(e) == TRUE

\* load_config(): [raised, h, v], v the returned config.
LoadConfigResult(h, f) ==
    LET c == DeepCopy(h, DEFAULT_CONFIG, Addr("config", 0)) IN
    IF f.kind = "absent" THEN [raised |-> FALSE, h |-> c.h, v |-> c.v]
    ELSE IF LoadError(f) # "none"
         THEN [raised |-> ~Caught(LoadError(f)), h |-> c.h, v |-> c.v]
         ELSE LET saved == Build(c.h, f.tree, Addr("saved", 0))
              IN  [raised |-> FALSE,
                   h |-> DeepUpdateRun(saved.h, Enter(saved.h, <<>>, c.v.ref, saved.v.ref)),
                   v |-> c.v]

\* main(): config_state.CONFIG = load_config()
LoadConfig ==
    /\ boot = "start"
    /\ LET r == LoadConfigResult(heap, file) IN
       IF r.raised
       THEN /\ boot' = "load_raised"
            /\ UNCHANGED <<heap, CONFIG, loaded>>
       ELSE /\ boot' = "loaded"
            /\ CONFIG' = r.v
            /\ heap' = Collect(r.h, Roots(r.v, patch, snap, stack))
            /\ loaded' = TreeOf(r.h, r.v)
    /\ UNCHANGED <<file, lock, pc, patch, snap, stack, calls,
                   applied, done, preTree, startDone, snapLo, snapHi, failed>>
    /\ UNCHANGED <<prod, app>>

\* What a failed save_config leaves on disk: makedirs or open failed and the
\* file is as it was, or open truncated it and the write stopped part way.
FailedWrites(f) == {f, Corrupt}

\* save_config writes nothing.
SaveKeepsFile(h, cfg, f) == f

\* save_config creates config.json and leaves an existing one as it is.
SaveOnlyCreates(h, cfg, f) ==
    IF f.kind = "absent" THEN Json(TreeOf(h, cfg)) ELSE f

\* save_config(config) when no call of it raises: open(CONFIG_PATH, "w")
\* truncates the file f and json.dump writes the whole tree.
SaveConfig(h, cfg, f) == Json(TreeOf(h, cfg))

\* main(): save_config(config_state.CONFIG), the write succeeds.
BootSave ==
    /\ boot = "loaded"
    /\ file' = SaveConfig(heap, CONFIG, file)
    /\ boot' = "running"
    /\ UNCHANGED <<heap, CONFIG, lock, pc, patch, snap, stack, calls, hist>>
    /\ UNCHANGED <<prod, app>>

\* main(): save_config raises, nothing catches it and the process ends.
BootSaveFails ==
    /\ boot = "loaded"
    /\ file' \in FailedWrites(file)
    /\ boot' = "crashed"
    /\ UNCHANGED <<heap, CONFIG, lock, pc, patch, snap, stack, calls, hist>>
    /\ UNCHANGED <<prod, app>>

(***************************************************************************)
(* update_config(patch), called by thread t.                               *)
(***************************************************************************)
UpdSkipsLock == TRUE

\* update_config's `with CONFIG_LOCK:` can be entered: no thread is inside a
\* with block of the lock.
UpdMayEnter == lock = {}

\* update_config is called and waits for the lock.
CallUpdate(t) ==
    /\ boot = "running" /\ pc[t] = "idle"
    /\ ncalls < MaxCalls /\ nupd < MaxUpdates
    /\ pc' = [pc EXCEPT ![t] = "upd_wait"]
    /\ ncalls' = ncalls + 1 /\ nupd' = nupd + 1
    /\ UNCHANGED <<heap, CONFIG, file, boot, lock, patch, snap, stack, hist>>
    /\ UNCHANGED <<prod, app>>

\* `with CONFIG_LOCK:` is entered and _deep_update(CONFIG, patch) is called,
\* patch being the dict p the caller built for the call.
UpdAcquire(t, p) ==
    /\ pc[t] = "upd_wait" /\ UpdMayEnter
    /\ lock' = lock \cup {t}
    /\ pc' = [pc EXCEPT ![t] = "upd_cs"]
    /\ LET b == Build(heap, p, Addr("patch", Len(applied))) IN
       /\ heap' = b.h
       /\ patch' = [patch EXCEPT ![t] = b.v]
       /\ stack' = [stack EXCEPT ![t] = Enter(b.h, <<>>, CONFIG.ref, b.v.ref)]
    /\ applied' = Append(applied, p)
    /\ preTree' = TreeOf(heap, CONFIG)
    /\ UNCHANGED <<CONFIG, file, boot, snap, calls,
                   loaded, done, startDone, snapLo, snapHi, failed>>
    /\ UNCHANGED <<prod, app>>

\* One iteration of the loop of _deep_update; updates.items() yields the
\* keys in the order the caller inserted them, which is any order.
UpdMerge(t) ==
    /\ pc[t] = "upd_cs" /\ stack[t] # <<>>
    /\ \E k \in stack[t][Len(stack[t])].todo :
         LET r == DeepUpdateStep(heap, stack[t], k) IN
         /\ stack' = [stack EXCEPT ![t] = r.st]
         /\ heap' = Collect(r.h, Roots(CONFIG, patch, snap, stack'))
    /\ UNCHANGED <<CONFIG, file, boot, lock, pc, patch, snap, calls, hist>>
    /\ UNCHANGED <<prod, app>>

\* The end of `with CONFIG_LOCK:` in update_config: the block is left by
\* falling off its end or by the exception of save_config, and the lock is
\* released either way.
ExitOnReturnOnly(l, t, raised) == IF raised THEN l ELSE l \ {t}
WithExit(l, t, raised) == l \ {t}

\* save_config(CONFIG) writes the file; the with block and the call end.
UpdSave(t) ==
    /\ pc[t] = "upd_cs" /\ stack[t] = <<>>
    /\ file' = SaveConfig(heap, CONFIG, file)
    /\ lock' = WithExit(lock, t, FALSE)
    /\ pc' = [pc EXCEPT ![t] = "upd_ret"]
    /\ done' = done + 1
    /\ UNCHANGED <<heap, CONFIG, boot, patch, snap, stack, calls,
                   loaded, applied, preTree, startDone, snapLo, snapHi, failed>>
    /\ UNCHANGED <<prod, app>>

\* save_config(CONFIG) raises OSError: the with block releases the lock and
\* the exception leaves update_config.
UpdSaveFails(t) ==
    /\ pc[t] = "upd_cs" /\ stack[t] = <<>>
    /\ file' \in FailedWrites(file)
    /\ lock' = WithExit(lock, t, TRUE)
    /\ pc' = [pc EXCEPT ![t] = "upd_raised"]
    /\ done' = done + 1
    /\ failed' = TRUE
    /\ UNCHANGED <<heap, CONFIG, boot, patch, snap, stack, calls,
                   loaded, applied, preTree, startDone, snapLo, snapHi>>
    /\ UNCHANGED <<prod, app>>

\* The caller goes on and its patch goes out of scope.
UpdFinish(t) ==
    /\ pc[t] \in {"upd_ret", "upd_raised", "patch_mutated"}
    /\ pc' = [pc EXCEPT ![t] = "idle"]
    /\ patch' = [patch EXCEPT ![t] = None]
    /\ heap' = Collect(heap, Roots(CONFIG, patch', snap, stack))
    /\ UNCHANGED <<CONFIG, file, boot, lock, snap, stack, calls, hist>>
    /\ UNCHANGED <<prod, app>>

\* A caller that kept its patch changes it in place after the call.
MutatePatch(t) ==
    /\ pc[t] \in {"upd_ret", "upd_raised"}
    /\ pc' = [pc EXCEPT ![t] = "patch_mutated"]
    /\ heap' = MutateAll(heap, patch[t])
    /\ UNCHANGED <<CONFIG, file, boot, lock, patch, snap, stack, calls, hist>>
    /\ UNCHANGED <<prod, app>>

(***************************************************************************)
(* get_config(), called by thread t.                                       *)
(***************************************************************************)
GetSkipsLock == TRUE

\* get_config's `with CONFIG_LOCK:` can be entered.
GetMayEnter == lock = {}

\* get_config is called and waits for the lock.
CallGet(t) ==
    /\ boot = "running" /\ pc[t] = "idle" /\ ncalls < MaxCalls
    /\ pc' = [pc EXCEPT ![t] = "get_wait"]
    /\ ncalls' = ncalls + 1
    /\ startDone' = [startDone EXCEPT ![t] = done]
    /\ UNCHANGED <<heap, CONFIG, file, boot, lock, patch, snap, stack, nupd,
                   loaded, applied, done, preTree, snapLo, snapHi, failed>>
    /\ UNCHANGED <<prod, app>>

\* `with CONFIG_LOCK: return copy.deepcopy(CONFIG)`: the lock is taken, the
\* copy made and the lock released, with no step of another thread between.
GetCopy(t) ==
    /\ pc[t] = "get_wait" /\ GetMayEnter
    /\ LET r == DeepCopy(heap, CONFIG, Addr("snapshot", t)) IN
       /\ heap' = r.h
       /\ snap' = [snap EXCEPT ![t] = r.v]
    /\ pc' = [pc EXCEPT ![t] = "got"]
    /\ snapLo' = [snapLo EXCEPT ![t] = done]
    /\ snapHi' = [snapHi EXCEPT ![t] = Len(applied)]
    /\ UNCHANGED <<CONFIG, file, boot, lock, patch, stack, calls,
                   loaded, applied, done, preTree, startDone, failed>>
    /\ UNCHANGED <<prod, app>>

\* The caller changes the tree it was given in place.
MutateSnapshot(t) ==
    /\ pc[t] = "got"
    /\ pc' = [pc EXCEPT ![t] = "mutated"]
    /\ heap' = MutateAll(heap, snap[t])
    /\ UNCHANGED <<CONFIG, file, boot, lock, patch, snap, stack, calls, hist>>
    /\ UNCHANGED <<prod, app>>

\* The caller is done with its snapshot.
DropSnapshot(t) ==
    /\ pc[t] \in {"got", "mutated"}
    /\ pc' = [pc EXCEPT ![t] = "idle"]
    /\ snap' = [snap EXCEPT ![t] = None]
    /\ heap' = Collect(heap, Roots(CONFIG, patch, snap', stack))
    /\ startDone' = [startDone EXCEPT ![t] = 0]
    /\ snapLo' = [snapLo EXCEPT ![t] = 0]
    /\ snapHi' = [snapHi EXCEPT ![t] = 0]
    /\ UNCHANGED <<CONFIG, file, boot, lock, patch, stack, calls,
                   loaded, applied, done, preTree, failed>>
    /\ UNCHANGED <<prod, app>>

(***************************************************************************)
(* The program: main() loads and saves, then its threads use the store.    *)
(* Every caller in the repository passes update_config a dict display and  *)
(* keeps no reference to it.                                               *)
(***************************************************************************)
Next ==
    \/ LoadConfig
    \/ BootSave
    \/ BootSaveFails
    \/ \E t \in Threads : CallUpdate(t)
    \/ \E t \in Threads, p \in Patches : UpdAcquire(t, p)
    \/ \E t \in Threads : UpdMerge(t)
    \/ \E t \in Threads : UpdSave(t)
    \/ \E t \in Threads : UpdSaveFails(t)
    \/ \E t \in Threads : UpdFinish(t)
    \/ \E t \in Threads : CallGet(t)
    \/ \E t \in Threads : GetCopy(t)
    \/ \E t \in Threads : MutateSnapshot(t)
    \/ \E t \in Threads : DropSnapshot(t)

Spec == Init /\ [][Next]_vars

\* The store used through its interface by a caller that keeps its patch.
NextOwn ==
    \/ Next
    \/ \E t \in Threads : MutatePatch(t)

SpecOwn == Init /\ [][NextOwn]_vars

(***************************************************************************)
(* _deep_update on its own: one caller merges one patch, once and again,   *)
(* onto a stored tree; both trees are drawn from the trees of a bounded    *)
(* depth.                                                                  *)
(***************************************************************************)
TargetLeaves == {S("0"), L(<<"1", "2">>)}
PatchLeaves  == {S("1"), L(<<"3">>)}

RECURSIVE TreesOf(_, _, _)
\* The dicts of nesting depth d at most: each key of keys is absent or holds
\* a leaf or a dict, the dicts below the top having the one key "a".
TreesOf(d, keys, leaves) ==
    LET vals == leaves \cup (IF d > 1 THEN TreesOf(d - 1, {"a"}, leaves) ELSE {})
    IN  { D(f) : f \in UNION { [ks -> vals] : ks \in SUBSET keys } }

\* CONFIG holds any tree, as main() would have loaded and saved it.
InitMerge ==
    /\ \E tr \in TreesOf(MaxDepth, {"a", "b"}, TargetLeaves) :
         LET d == Build(<<>>, DefaultTree, DEFAULT_CONFIG.ref)
             c == Build(d.h, tr, Addr("CONFIG", 0))
         IN  /\ heap = c.h /\ CONFIG = c.v
             /\ file = Json(tr)
             /\ loaded = tr
    /\ boot = "running"
    /\ lock = {}
    /\ pc = [t \in Threads |-> "idle"]
    /\ patch = [t \in Threads |-> None]
    /\ snap = [t \in Threads |-> None]
    /\ stack = [t \in Threads |-> <<>>]
    /\ ncalls = 0 /\ nupd = 0
    /\ applied = <<>>
    /\ done = 0
    /\ preTree = D(<<>>)
    /\ startDone = [t \in Threads |-> 0]
    /\ snapLo = [t \in Threads |-> 0]
    /\ snapHi = [t \in Threads |-> 0]
    /\ failed = FALSE
    /\ ProducersNotBuilt
    /\ AppNotBuilt

\* update_config(p) with a dict p built for the call; a later call is given
\* a dict of the same content.
UpdAcquireSame(t, p) ==
    /\ IF applied = <<>> THEN TRUE ELSE p = applied[Len(applied)]
    /\ UpdAcquire(t, p)

\* update_config(p) once more with the very dict object of the call that
\* has just returned.
UpdAgain(t) ==
    /\ pc[t] = "upd_ret" /\ UpdMayEnter
    /\ ncalls < MaxCalls /\ nupd < MaxUpdates
    /\ ncalls' = ncalls + 1 /\ nupd' = nupd + 1
    /\ lock' = lock \cup {t}
    /\ pc' = [pc EXCEPT ![t] = "upd_cs"]
    /\ stack' = [stack EXCEPT ![t] = Enter(heap, <<>>, CONFIG.ref, patch[t].ref)]
    /\ applied' = Append(applied, TreeOf(heap, patch[t]))
    /\ preTree' = TreeOf(heap, CONFIG)
    /\ UNCHANGED <<heap, CONFIG, file, boot, patch, snap,
                   loaded, done, startDone, snapLo, snapHi, failed>>
    /\ UNCHANGED <<prod, app>>

NextMerge ==
    \/ CallUpdate(1)
    \/ \E p \in TreesOf(MaxDepth, {"a", "b"}, PatchLeaves) : UpdAcquireSame(1, p)
    \/ UpdMerge(1)
    \/ UpdSave(1)
    \/ UpdAgain(1)
    \/ UpdFinish(1)

SpecMerge == InitMerge /\ [][NextMerge]_vars

(***************************************************************************)
(* The producers.  Each reads its section of the store with get_config(),  *)
(* which returns a whole snapshot: the sections are wcfg and scfg here,    *)
(* and update_config on a section is one step.                             *)
(***************************************************************************)
\* The store as the producers see it; its own state stays as imported.
InitProd ==
    /\ LET d == Build(<<>>, DefaultTree, DEFAULT_CONFIG.ref)
           c == Build(d.h, D(<<>>), Addr("CONFIG", 0))
       IN  heap = c.h /\ CONFIG = c.v
    /\ file = Absent
    /\ boot = "start"
    /\ lock = {}
    /\ pc = [t \in Threads |-> "idle"]
    /\ patch = [t \in Threads |-> None]
    /\ snap = [t \in Threads |-> None]
    /\ stack = [t \in Threads |-> <<>>]
    /\ ncalls = 0 /\ nupd = 0
    /\ loaded = D(<<>>)
    /\ applied = <<>>
    /\ done = 0
    /\ preTree = D(<<>>)
    /\ startDone = [t \in Threads |-> 0]
    /\ snapLo = [t \in Threads |-> 0]
    /\ snapHi = [t \in Threads |-> 0]
    /\ failed = FALSE
    /\ wcfg \in [enabled : BOOLEAN, refresh_s : RefreshS]
    /\ scfg \in [enabled : BOOLEAN]
    /\ ProducersBuilt
    /\ AppNotBuilt

\* A thread running _run, with its local variables: the enabled flag and the
\* refresh_s of the snapshot it took, and time.time() - now.
Task(at) == [pc |-> at, en |-> FALSE, rf |-> 0, lag |-> 0]

\* threading.Thread.is_alive() of a started thread.
Alive(tk) == tk.pc \notin {"exited", "off_exit", "raised"}

AlwaysSpawns(p) == TRUE

\* start(): `if self._thread and self._thread.is_alive(): return` is not taken.
MaySpawn(p) == ~(thread[p] # 0 /\ Alive(tasks[p][thread[p]]))

\* start(): the thread is created and started unless one is alive.
Spawn(p) ==
    IF MaySpawn(p)
    THEN /\ tasks' = [tasks EXCEPT ![p] = Append(@, Task("top"))]
         /\ thread' = [thread EXCEPT ![p] = Len(tasks[p]) + 1]
    ELSE UNCHANGED <<tasks, thread>>

\* start(), called by the coordinator's thread.
Start(p) ==
    /\ nstart["weather"] + nstart["speech"] < MaxStarts
    /\ nstart' = [nstart EXCEPT ![p] = @ + 1]
    /\ Spawn(p)
    /\ UNCHANGED <<wcfg, scfg, stopEv, summary, age, sinceAttempt, lastFailed>>
    /\ UNCHANGED <<store, app>>

\* stop(): self._stop.set(); the join that follows waits a second at most
\* and changes nothing.
Stop(p) ==
    /\ ~stopEv[p]
    /\ stopEv' = [stopEv EXCEPT ![p] = TRUE]
    /\ UNCHANGED <<wcfg, scfg, thread, tasks, nstart, summary, age,
                   sinceAttempt, lastFailed>>
    /\ UNCHANGED <<store, app>>

LoopIgnoresStop(p) == TRUE

\* `while not self._stop.is_set()`.
LoopGoesOn(p) == ~stopEv[p]

\* WeatherProvider._run: the loop condition, then cfg = get_config() and
\* weather_cfg = cfg["weather"].
WBegin(i) ==
    /\ i \in 1..Len(tasks["weather"]) /\ tasks["weather"][i].pc = "top"
    /\ tasks' = [tasks EXCEPT !["weather"][i] =
                   IF LoopGoesOn("weather")
                   THEN [pc |-> "branch", en |-> wcfg.enabled,
                         rf |-> wcfg.refresh_s, lag |-> 0]
                   ELSE Task("exited")]
    /\ UNCHANGED <<wcfg, scfg, stopEv, thread, nstart, summary, age,
                   sinceAttempt, lastFailed>>
    /\ UNCHANGED <<store, app>>

WritesSnapshotBack(w, tk) == [w EXCEPT !.enabled = tk.en]

\* The weather section of the stored tree after a cycle of _run, which
\* reads its snapshot tk and calls neither update_config nor save_config.
StoredAfterCycle(w, tk) == w

\* WeatherProvider._run: disabled, the sentinel is published before the
\* sleep; enabled, now = time.time() and the fetch is begun when due.
WBranch(i) ==
    /\ i \in 1..Len(tasks["weather"]) /\ tasks["weather"][i].pc = "branch"
    /\ LET tk == tasks["weather"][i] IN
       IF ~tk.en
       THEN /\ summary' = DISABLED
            /\ tasks' = [tasks EXCEPT !["weather"][i] = Task("nap")]
            /\ UNCHANGED sinceAttempt
       ELSE IF age >= tk.rf
       THEN /\ tasks' = [tasks EXCEPT !["weather"][i].pc = "fetch"]
            /\ sinceAttempt' = 0
            /\ UNCHANGED summary
       ELSE /\ tasks' = [tasks EXCEPT !["weather"][i] = Task("nap")]
            /\ UNCHANGED <<summary, sinceAttempt>>
    /\ wcfg' = StoredAfterCycle(wcfg, tasks["weather"][i])
    /\ UNCHANGED <<scfg, stopEv, thread, nstart, age, lastFailed>>
    /\ UNCHANGED <<store, app>>

\* How _fetch_weather ends: a report, a reply without a temperature, urlopen
\* raising, the formatting of the temperature raising.
FetchOutcomes == {"report", "no_temperature", "URLError", "ValueError"}
FetchRaises(out) == out \in {"URLError", "ValueError"}

\* `except Exception` of _fetch_weather.
FetchCaught(out) == TRUE

\* The value _fetch_weather returns.
FetchResult(out) == IF out = "report" THEN Report ELSE UNAVAILABLE

LastUpdateOnReport(out, lag, a) == IF out = "report" THEN lag ELSE a

\* time.time() - _last_update after `self._last_update = now`, when the
\* fetch gave out, took lag seconds, and the difference was a before.
LastUpdateAge(out, lag, a) == lag

\* WeatherProvider._run: _fetch_weather returns, the summary is published
\* and _last_update set.
WFetchDone(i, out) ==
    /\ i \in 1..Len(tasks["weather"]) /\ tasks["weather"][i].pc = "fetch"
    /\ IF FetchRaises(out) /\ ~FetchCaught(out)
       THEN /\ tasks' = [tasks EXCEPT !["weather"][i] = Task("raised")]
            /\ UNCHANGED <<summary, age, lastFailed>>
       ELSE /\ summary' = FetchResult(out)
            /\ age' = LastUpdateAge(out, tasks["weather"][i].lag, age)
            /\ lastFailed' = (out # "report")
            /\ tasks' = [tasks EXCEPT !["weather"][i] = Task("nap")]
    /\ UNCHANGED <<wcfg, scfg, stopEv, thread, nstart, sinceAttempt>>
    /\ UNCHANGED <<store, app>>

\* Five seconds pass: every time.sleep(5) under way ends.
Tick ==
    /\ age' = Sat(age + SleepS)
    /\ sinceAttempt' = Sat(sinceAttempt + SleepS)
    /\ tasks' = [tasks EXCEPT !["weather"] =
                   [i \in 1..Len(@) |->
                      IF @[i].pc = "nap" THEN Task("top")
                      ELSE IF @[i].pc = "fetch"
                           THEN [@[i] EXCEPT !.lag = Sat(@ + SleepS)]
                           ELSE @[i]]]
    /\ UNCHANGED <<wcfg, scfg, stopEv, thread, nstart, summary, lastFailed>>
    /\ UNCHANGED <<store, app>>

\* SpeechListener._run: cfg = get_config().get("speech", {}) and the return
\* when speech is not enabled.
SBegin(i) ==
    /\ i \in 1..Len(tasks["speech"]) /\ tasks["speech"][i].pc = "top"
    /\ tasks' = [tasks EXCEPT !["speech"][i] =
                   IF scfg.enabled THEN [Task("setup") EXCEPT !.en = TRUE]
                   ELSE Task("off_exit")]
    /\ UNCHANGED <<wcfg, scfg, stopEv, thread, nstart, summary, age,
                   sinceAttempt, lastFailed>>
    /\ UNCHANGED <<store, app>>

\* SpeechListener._run: the model is found or downloaded, vosk and
\* sounddevice are imported and the input stream opened (ok), or one of
\* them fails and _run returns.
SSetup(i, ok) ==
    /\ i \in 1..Len(tasks["speech"]) /\ tasks["speech"][i].pc = "setup"
    /\ tasks' = [tasks EXCEPT !["speech"][i] =
                   IF ok THEN [@ EXCEPT !.pc = "listen"] ELSE Task("exited")]
    /\ UNCHANGED <<wcfg, scfg, stopEv, thread, nstart, summary, age,
                   sinceAttempt, lastFailed>>
    /\ UNCHANGED <<store, app>>

\* SpeechListener._run: the condition of the listening loop.
SLoop(i) ==
    /\ i \in 1..Len(tasks["speech"]) /\ tasks["speech"][i].pc = "listen"
    /\ tasks' = [tasks EXCEPT !["speech"][i] =
                   IF LoopGoesOn("speech") THEN [@ EXCEPT !.pc = "wait"]
                   ELSE Task("exited")]
    /\ UNCHANGED <<wcfg, scfg, stopEv, thread, nstart, summary, age,
                   sinceAttempt, lastFailed>>
    /\ UNCHANGED <<store, app>>

\* SpeechListener._run: q.get(timeout=0.2) gives a block of sound or times
\* out, and what was heard is handled (ok); or the handling raises, which
\* ends the loop and _run.
SHear(i, ok) ==
    /\ i \in 1..Len(tasks["speech"]) /\ tasks["speech"][i].pc = "wait"
    /\ tasks' = [tasks EXCEPT !["speech"][i] =
                   IF ok THEN [@ EXCEPT !.pc = "listen"] ELSE Task("exited")]
    /\ UNCHANGED <<wcfg, scfg, stopEv, thread, nstart, summary, age,
                   sinceAttempt, lastFailed>>
    /\ UNCHANGED <<store, app>>

\* update_config({"weather": {"enabled": b}}) by the web form.
SetWeatherEnabled(b) ==
    /\ wcfg.enabled # b
    /\ wcfg' = [wcfg EXCEPT !.enabled = b]
    /\ UNCHANGED <<scfg, stopEv, thread, tasks, nstart, summary, age,
                   sinceAttempt, lastFailed>>
    /\ UNCHANGED <<store, app>>

\* update_config({"speech": {"enabled": b}}).
SetSpeechEnabled(b) ==
    /\ scfg.enabled # b
    /\ scfg' = [scfg EXCEPT !.enabled = b]
    /\ UNCHANGED <<wcfg, stopEv, thread, tasks, nstart, summary, age,
                   sinceAttempt, lastFailed>>
    /\ UNCHANGED <<store, app>>

\* A step of the i-th thread of producer p.
TaskStep(p, i) ==
    IF p = "weather"
    THEN WBegin(i) \/ WBranch(i) \/ \E out \in FetchOutcomes : WFetchDone(i, out)
    ELSE SBegin(i) \/ SLoop(i) \/ \E ok \in BOOLEAN : (SSetup(i, ok) \/ SHear(i, ok))

NextProd ==
    \/ \E p \in Producers : Start(p)
    \/ \E p \in Producers : Stop(p)
    \/ \E i \in 1..MaxStarts : WBegin(i)
    \/ \E i \in 1..MaxStarts : WBranch(i)
    \/ \E i \in 1..MaxStarts, out \in FetchOutcomes : WFetchDone(i, out)
    \/ Tick
    \/ \E i \in 1..MaxStarts : SBegin(i)
    \/ \E i \in 1..MaxStarts, ok \in BOOLEAN : SSetup(i, ok)
    \/ \E i \in 1..MaxStarts : SLoop(i)
    \/ \E i \in 1..MaxStarts, ok \in BOOLEAN : SHear(i, ok)
    \/ \E b \in BOOLEAN : SetWeatherEnabled(b)
    \/ \E b \in BOOLEAN : SetSpeechEnabled(b)

SpecProd == InitProd /\ [][NextProd]_vars

\* The scheduler runs every thread that can take a step, and time passes.
SpecProdFair ==
    /\ SpecProd
    /\ WF_vars(Tick)
    /\ \A p \in Producers : WF_vars(\E i \in 1..MaxStarts : TaskStep(p, i))

(***************************************************************************)
(* The weather thread and its locks: one cycle of _run, step by step, with *)
(* CONFIG_LOCK taken inside get_config and WeatherProvider._lock taken     *)
(* inside _set_summary and get_summary.                                    *)
(***************************************************************************)
\* The thread of the WeatherProvider among the holders of CONFIG_LOCK.
WeatherThread == 0

storeRest == <<heap, CONFIG, file, boot, pc, patch, snap, stack, ncalls, nupd,
               loaded, applied, done, preTree, startDone, snapLo, snapHi,
               failed>>
life == <<mpc, status, running, started, stopCalls, via, escaped, servers,
          waited>>
ui   == <<isActive, cons, ucfg, cleaned>>
web  == <<form, sent, reply>>

KeepsConfigLock(l) == l

\* The end of `with CONFIG_LOCK:` in get_config.
ReleaseConfigLock(l) == l \ {WeatherThread}

\* _run: the loop condition, then get_config() enters `with CONFIG_LOCK`.
LBegin(i) ==
    /\ i \in 1..Len(tasks["weather"]) /\ tasks["weather"][i].pc = "top"
    /\ IF LoopGoesOn("weather")
       THEN /\ lock = {}
            /\ lock' = {WeatherThread}
            /\ tasks' = [tasks EXCEPT !["weather"][i].pc = "get_config"]
       ELSE /\ tasks' = [tasks EXCEPT !["weather"][i] = Task("exited")]
            /\ UNCHANGED lock
    /\ UNCHANGED <<wcfg, scfg, stopEv, thread, nstart, summary, age,
                   sinceAttempt, lastFailed>>
    /\ UNCHANGED <<storeRest, app>>

\* get_config: copy.deepcopy(CONFIG) is made, the with block ends, and
\* weather_cfg = cfg["weather"].
LCopy(i) ==
    /\ i \in 1..Len(tasks["weather"]) /\ tasks["weather"][i].pc = "get_config"
    /\ lock' = ReleaseConfigLock(lock)
    /\ tasks' = [tasks EXCEPT !["weather"][i] =
                   [pc |-> "branch", en |-> wcfg.enabled,
                    rf |-> wcfg.refresh_s, lag |-> 0]]
    /\ UNCHANGED <<wcfg, scfg, stopEv, thread, nstart, summary, age,
                   sinceAttempt, lastFailed>>
    /\ UNCHANGED <<storeRest, app>>

\* _run: disabled, _set_summary("Weather: off") enters `with self._lock`;
\* enabled, now = time.time() and _fetch_weather is called when due.
LBranch(i) ==
    /\ i \in 1..Len(tasks["weather"]) /\ tasks["weather"][i].pc = "branch"
    /\ LET tk == tasks["weather"][i] IN
       IF ~tk.en
       THEN /\ slock = {}
            /\ slock' = {"weather"}
            /\ tasks' = [tasks EXCEPT !["weather"][i].pc = "set_off"]
            /\ UNCHANGED sinceAttempt
       ELSE IF age >= tk.rf
       THEN /\ tasks' = [tasks EXCEPT !["weather"][i].pc = "fetch"]
            /\ sinceAttempt' = 0
            /\ UNCHANGED slock
       ELSE /\ tasks' = [tasks EXCEPT !["weather"][i] = Task("nap")]
            /\ UNCHANGED <<slock, sinceAttempt>>
    /\ UNCHANGED <<wcfg, scfg, stopEv, thread, nstart, summary, age,
                   lastFailed>>
    /\ UNCHANGED <<store, load, life, ui, web, wout>>

\* _set_summary("Weather: off"): the summary is stored, the with block
\* ends, and time.sleep(5) begins.
LSetOff(i) ==
    /\ i \in 1..Len(tasks["weather"]) /\ tasks["weather"][i].pc = "set_off"
    /\ summary' = DISABLED
    /\ slock' = slock \ {"weather"}
    /\ tasks' = [tasks EXCEPT !["weather"][i] = Task("nap")]
    /\ UNCHANGED <<wcfg, scfg, stopEv, thread, nstart, age, sinceAttempt,
                   lastFailed>>
    /\ UNCHANGED <<store, load, life, ui, web, wout>>

\* _fetch_weather returns and _set_summary(summary) enters `with
\* self._lock`.
LFetchDone(i, out) ==
    /\ i \in 1..Len(tasks["weather"]) /\ tasks["weather"][i].pc = "fetch"
    /\ IF FetchRaises(out) /\ ~FetchCaught(out)
       THEN /\ tasks' = [tasks EXCEPT !["weather"][i] = Task("raised")]
            /\ UNCHANGED <<slock, wout>>
       ELSE /\ slock = {}
            /\ slock' = {"weather"}
            /\ wout' = out
            /\ tasks' = [tasks EXCEPT !["weather"][i].pc = "set_result"]
    /\ UNCHANGED <<wcfg, scfg, stopEv, thread, nstart, summary, age,
                   sinceAttempt, lastFailed>>
    /\ UNCHANGED <<store, load, life, ui, web>>

\* _set_summary(summary): the summary is stored and the with block ends;
\* then _last_update = now, and time.sleep(5) begins.
LSetResult(i) ==
    /\ i \in 1..Len(tasks["weather"]) /\ tasks["weather"][i].pc = "set_result"
    /\ summary' = FetchResult(wout)
    /\ slock' = slock \ {"weather"}
    /\ age' = LastUpdateAge(wout, tasks["weather"][i].lag, age)
    /\ lastFailed' = (wout # "report")
    /\ wout' = "none"
    /\ tasks' = [tasks EXCEPT !["weather"][i] = Task("nap")]
    /\ UNCHANGED <<wcfg, scfg, stopEv, thread, nstart, sinceAttempt>>
    /\ UNCHANGED <<store, load, life, ui, web>>

\* The render threads as holders of CONFIG_LOCK.
ConsumerThread(c) == IF c = "terminal" THEN 3 ELSE 4

\* draw_weather of consumer c: get_config() enters `with CONFIG_LOCK`.
DrawGetConfig(c) ==
    /\ lock = {} /\ c \notin slock
    /\ lock' = {ConsumerThread(c)}
    /\ UNCHANGED <<storeRest, load, prod, life, ui, web, slock, wout>>

\* get_config(): the copy is made and the with block ends.
DrawGetConfigExit(c) ==
    /\ ConsumerThread(c) \in lock
    /\ lock' = lock \ {ConsumerThread(c)}
    /\ UNCHANGED <<storeRest, load, prod, life, ui, web, slock, wout>>

\* get_summary(), called by the render thread of consumer c after its
\* get_config() has returned: `with self._lock` is entered.
GetSummaryEnter(c) ==
    /\ slock = {} /\ ConsumerThread(c) \notin lock
    /\ slock' = {c}
    /\ UNCHANGED <<store, load, prod, life, ui, web, wout>>

\* get_summary(): the summary is returned and the with block ends.
GetSummaryExit(c) ==
    /\ c \in slock
    /\ slock' = slock \ {c}
    /\ UNCHANGED <<store, load, prod, life, ui, web, wout>>

\* update_config of the web form, which needs CONFIG_LOCK.
LSetWeatherEnabled(b) == lock = {} /\ SetWeatherEnabled(b)

NextLocks ==
    \/ Start("weather")
    \/ Stop("weather")
    \/ \E i \in 1..MaxStarts : LBegin(i)
    \/ \E i \in 1..MaxStarts : LCopy(i)
    \/ \E i \in 1..MaxStarts : LBranch(i)
    \/ \E i \in 1..MaxStarts : LSetOff(i)
    \/ \E i \in 1..MaxStarts, out \in FetchOutcomes : LFetchDone(i, out)
    \/ \E i \in 1..MaxStarts : LSetResult(i)
    \/ Tick
    \/ \E c \in Consumers : DrawGetConfig(c)
    \/ \E c \in Consumers : DrawGetConfigExit(c)
    \/ \E c \in Consumers : GetSummaryEnter(c)
    \/ \E c \in Consumers : GetSummaryExit(c)
    \/ \E b \in BOOLEAN : LSetWeatherEnabled(b)

SpecLocks == InitProd /\ [][NextLocks]_vars

(***************************************************************************)
(* The consumers.  A render thread draws a frame part by part, each part   *)
(* with its own get_config(), then sleeps for the refresh_s of one more    *)
(* get_config().  style stands for what the parts read: terminal.colors,   *)
(* oled.font_sizes.  Time is counted in seconds.                           *)
(***************************************************************************)
Styles == {"a", "b"}
UiRefresh == 1..MaxNap

\* draw_all: the drawing calls of one frame, each of which calls
\* get_config() (TerminalUI: draw_all itself for clear_screen, draw_header,
\* draw_time_date, draw_weather, draw_system_info; OLEDDisplay:
\* _apply_background, draw_time_date, draw_weather followed by show).
Parts(c) ==
    IF c = "terminal"
    THEN <<"clear_screen", "header", "time_date", "weather", "system_info">>
    ELSE <<"background", "time_date", "weather">>

\* The parts that read the style of the snapshot they take.
UsesStyle(c, k) == Parts(c)[k] \notin {"clear_screen", "background"}

\* The process is there: its daemon threads run.
ProcessRuns == status = "running"

\* One drawing call of draw_all: it takes a snapshot and draws with it.
DrawPart(c) ==
    /\ ProcessRuns
    /\ cons[c].pc = "draw" /\ cons[c].k < Len(Parts(c))
    /\ cons' = [cons EXCEPT ![c].k = @ + 1,
                            ![c].seen = IF UsesStyle(c, cons[c].k + 1)
                                        THEN @ \cup {ucfg[c].style} ELSE @]
    /\ UNCHANGED <<store, load, prod, life, web, slock, wout, isActive, ucfg,
                   cleaned>>

EndsAllThreads(cs, c) == [d \in Consumers |-> [cs[d] EXCEPT !.pc = "failed"]]

\* The exception is caught in the thread that drew, whose loop it ends.
EndsThread(cs, c) == [cs EXCEPT ![c].pc = "failed"]

\* A drawing call raises.  OLEDDisplay.start catches it and clears
\* is_active; CombinedDisplay.start_terminal catches what leaves
\* TerminalUI.start.  Either way the thread ends.
RenderFails(c) ==
    /\ ProcessRuns
    /\ cons[c].pc = "draw" /\ cons[c].k < Len(Parts(c))
    /\ cons' = EndsThread(cons, c)
    /\ isActive' = IF c = "oled" THEN FALSE ELSE isActive
    /\ UNCHANGED <<store, load, prod, life, web, slock, wout, ucfg, cleaned>>

SleepLengthDefault(c) == 1

\* get_config()[...].get("refresh_s", 1.0), read after every frame.
SleepLength(c) == ucfg[c].refresh_s

\* The frame is drawn: time.sleep(get_config()[...].get("refresh_s", 1.0)).
Sleep(c) ==
    /\ ProcessRuns
    /\ cons[c].pc = "draw" /\ cons[c].k = Len(Parts(c))
    /\ cons' = [cons EXCEPT ![c].pc = "sleep", ![c].nap = SleepLength(c)]
    /\ UNCHANGED <<store, load, prod, life, web, slock, wout, isActive, ucfg,
                   cleaned>>

\* A second passes for the render threads: a sleep that has a second left
\* ends and the next frame begins.
Slept(cn) ==
    IF cn.pc # "sleep" THEN cn
    ELSE IF cn.nap > 1 THEN [cn EXCEPT !.nap = @ - 1]
    ELSE Consumer("draw")

\* join(timeout=1) of stop(), in seconds.
JoinTimeout == 1

\* A second passes.
Second ==
    /\ ProcessRuns
    /\ cons' = [c \in Consumers |-> Slept(cons[c])]
    /\ waited' = IF waited < JoinTimeout THEN waited + 1 ELSE waited
    /\ UNCHANGED <<store, load, prod, mpc, status, running, started, stopCalls, via,
                   escaped, servers, web, slock, wout, isActive, ucfg,
                   cleaned>>

\* update_config({c: {"refresh_s": v}}).
SetRefresh(c, v) ==
    /\ ucfg[c].refresh_s # v
    /\ ucfg' = [ucfg EXCEPT ![c].refresh_s = v]
    /\ UNCHANGED <<store, load, prod, life, web, slock, wout, isActive, cons,
                   cleaned>>

\* update_config({"terminal": {"colors": v}}), update_config({"oled":
\* {"font_sizes": v}}).
SetStyle(c, v) ==
    /\ ucfg[c].style # v
    /\ ucfg' = [ucfg EXCEPT ![c].style = v]
    /\ UNCHANGED <<store, load, prod, life, web, slock, wout, isActive, cons,
                   cleaned>>

\* start() has started everything and waits; both render threads run.
\* load_config and save_config of main() have run on the defaults.
StoreLoaded ==
    /\ LET d == Build(<<>>, DefaultTree, DEFAULT_CONFIG.ref)
           c == Build(d.h, DefaultTree, Addr("CONFIG", 0))
       IN  heap = c.h /\ CONFIG = c.v
    /\ file = Json(DefaultTree)
    /\ boot = "running"
    /\ lock = {}
    /\ pc = [t \in Threads |-> "idle"]
    /\ patch = [t \in Threads |-> None]
    /\ snap = [t \in Threads |-> None]
    /\ stack = [t \in Threads |-> <<>>]
    /\ ncalls = 0 /\ nupd = 0
    /\ loaded = DefaultTree
    /\ applied = <<>>
    /\ done = 0
    /\ preTree = D(<<>>)
    /\ startDone = [t \in Threads |-> 0]
    /\ snapLo = [t \in Threads |-> 0]
    /\ snapHi = [t \in Threads |-> 0]
    /\ failed = FALSE

\* start() has reached its wait loop: the servers and both render threads
\* are started.
UIStarted ==
    /\ PiOLEDBuilt
    /\ mpc = "wait"
    /\ status = "running"
    /\ running = TRUE
    /\ started = <<"assets", "boot_sound", "weather", "config_server",
                   "reboot_server", "speech", "terminal", "oled">>
    /\ stopCalls = 0
    /\ via = "none"
    /\ escaped = "none"
    /\ servers = {"config", "reboot"}
    /\ isActive = TRUE
    /\ cons = [c \in Consumers |-> Consumer("draw")]
    /\ ucfg = [c \in Consumers |-> [style |-> "a", refresh_s |-> 1]]
    /\ cleaned = [c \in Consumers |-> FALSE]
    /\ waited = 0
    /\ slock = {}
    /\ wout = "none"
    /\ form = <<>>
    /\ sent = <<>>
    /\ reply = "none"

InitUI == StoreLoaded /\ ProducersNotBuilt /\ UIStarted

NextUI ==
    \/ \E c \in Consumers : DrawPart(c)
    \/ \E c \in Consumers : RenderFails(c)
    \/ \E c \in Consumers : Sleep(c)
    \/ Second
    \/ \E c \in Consumers, v \in UiRefresh : SetRefresh(c, v)
    \/ \E c \in Consumers, v \in Styles : SetStyle(c, v)

SpecUI == InitUI /\ [][NextUI]_vars

(***************************************************************************)
(* The coordinator: main() of ribbon/app.py, CombinedDisplay.start() and   *)
(* CombinedDisplay.stop(), run by the main thread.                         *)
(***************************************************************************)
prodRest == <<wcfg, scfg, summary, age, sinceAttempt, lastFailed>>

\* The positions of the main thread inside start() before its wait loop.
StartupPcs == {"start", "assets", "boot_sound", "start_weather",
               "start_config", "start_reboot", "start_speech",
               "start_terminal", "start_oled"}

\* The positions of the main thread inside stop().
StopPcs == {"stop_weather", "join_weather", "stop_speech", "join_speech",
            "stop_terminal", "stop_oled", "oled_cleanup", "join_oled",
            "stop_done"}

\* display = CombinedDisplay(): OLEDDisplay.__init__ finds the display (ok)
\* or catches the failure and clears is_active.
Construct(ok) ==
    /\ boot = "running" /\ mpc = "main" /\ ProcessRuns
    /\ mpc' = "start"
    /\ isActive' = ok
    /\ UNCHANGED <<status, running, started, stopCalls, via, escaped, servers,
                   waited>>
    /\ UNCHANGED <<store, load, prod, web, slock, wout, cons, ucfg, cleaned>>

\* start(): self.running = True, the banner and time.sleep(1).
Begin ==
    /\ mpc = "start" /\ ProcessRuns
    /\ mpc' = "assets"
    /\ running' = TRUE
    /\ UNCHANGED <<status, started, stopCalls, via, escaped, servers, waited>>
    /\ UNCHANGED <<store, load, prod, ui, web, slock, wout>>

\* start(): ensure_default_assets(), then play_boot_sound().
Prepare(what) ==
    /\ ProcessRuns
    /\ mpc = what
    /\ mpc' = IF what = "assets" THEN "boot_sound" ELSE "start_weather"
    /\ started' = Append(started, what)
    /\ UNCHANGED <<status, running, stopCalls, via, escaped, servers, waited>>
    /\ UNCHANGED <<store, load, prod, ui, web, slock, wout>>

\* start(): self.weather_provider.start(), self.speech_listener.start().
StartProducer(p) ==
    /\ ProcessRuns
    /\ mpc = IF p = "weather" THEN "start_weather" ELSE "start_speech"
    /\ mpc' = IF p = "weather" THEN "start_config" ELSE "start_terminal"
    /\ Spawn(p)
    /\ nstart' = [nstart EXCEPT ![p] = @ + 1]
    /\ started' = Append(started, p)
    /\ UNCHANGED <<status, running, stopCalls, via, escaped, servers, waited>>
    /\ UNCHANGED <<store, load, prodRest, stopEv, ui, web, slock, wout>>

\* start(): self.config_server.start(), self.reboot_server.start(): the
\* thread of each server is started.
StartServer(sv) ==
    /\ ProcessRuns
    /\ mpc = IF sv = "config" THEN "start_config" ELSE "start_reboot"
    /\ mpc' = IF sv = "config" THEN "start_reboot" ELSE "start_speech"
    /\ servers' = servers \cup {sv}
    /\ started' = Append(started, IF sv = "config" THEN "config_server"
                                  ELSE "reboot_server")
    /\ UNCHANGED <<status, running, stopCalls, via, escaped, waited>>
    /\ UNCHANGED <<store, load, prod, ui, web, slock, wout>>

\* start(): the terminal thread is started; then the OLED thread, if
\* is_active.
StartConsumer(c) ==
    /\ ProcessRuns
    /\ mpc = IF c = "terminal" THEN "start_terminal" ELSE "start_oled"
    /\ mpc' = IF c = "terminal" THEN "start_oled" ELSE "wait"
    /\ IF c = "terminal" \/ isActive
       THEN /\ cons' = [cons EXCEPT ![c] = Consumer("draw")]
            /\ started' = Append(started, c)
       ELSE UNCHANGED <<cons, started>>
    /\ UNCHANGED <<status, running, stopCalls, via, escaped, servers, waited>>
    /\ UNCHANGED <<store, load, prod, web, slock, wout, isActive, ucfg, cleaned>>

\* What is raised in the main thread.
Raised == {"Exception", "KeyboardInterrupt"}

\* main(): `except Exception as e:` around display.start().
ExceptException(kind) == kind = "Exception"

\* An exception leaves start() before its wait loop: main() catches an
\* Exception and calls display.stop(); a KeyboardInterrupt is not caught
\* and ends the process with a traceback.
StartRaises(kind) ==
    /\ ProcessRuns
    /\ mpc \in StartupPcs
    /\ escaped' = kind
    /\ IF ExceptException(kind)
       THEN /\ mpc' = "stop_weather"
            /\ via' = "handler"
            /\ stopCalls' = stopCalls + 1
            /\ UNCHANGED status
       ELSE /\ mpc' = "exited"
            /\ status' = "nonzero"
            /\ UNCHANGED <<via, stopCalls>>
    /\ UNCHANGED <<running, started, servers, waited>>
    /\ UNCHANGED <<store, load, prod, ui, web, slock, wout>>

\* start(): a KeyboardInterrupt in the wait loop; self.stop() is called.
Interrupt ==
    /\ ProcessRuns
    /\ mpc = "wait"
    /\ mpc' = "stop_weather"
    /\ via' = "interrupt"
    /\ stopCalls' = stopCalls + 1
    /\ UNCHANGED <<status, running, started, escaped, servers, waited>>
    /\ UNCHANGED <<store, load, prod, ui, web, slock, wout>>

\* The thread of producer p is alive.
ProducerAlive(p) == thread[p] # 0 /\ Alive(tasks[p][thread[p]])

\* The thread of consumer c is alive.
ConsumerAlive(c) == cons[c].pc \in {"draw", "sleep"}

JoinWaitsForExit(alive, w) == ~alive

\* join(timeout=1) returns: the thread has ended or a second has passed.
JoinEnds(alive, w) == ~alive \/ w >= JoinTimeout

\* stop(): self.running = False; then weather_provider.stop() and
\* speech_listener.stop(), each of which sets _stop and joins the thread
\* if it is alive.
StopProducer(p) ==
    /\ ProcessRuns
    /\ mpc = IF p = "weather" THEN "stop_weather" ELSE "stop_speech"
    /\ running' = FALSE
    /\ stopEv' = [stopEv EXCEPT ![p] = TRUE]
    /\ waited' = 0
    /\ mpc' = IF ProducerAlive(p)
              THEN (IF p = "weather" THEN "join_weather" ELSE "join_speech")
              ELSE (IF p = "weather" THEN "stop_speech" ELSE "stop_terminal")
    /\ UNCHANGED <<status, started, stopCalls, via, escaped, servers>>
    /\ UNCHANGED <<store, load, prodRest, thread, tasks, nstart, ui, web, slock,
                   wout>>

\* stop(): self._thread.join(timeout=1) of a producer returns.
JoinProducer(p) ==
    /\ ProcessRuns
    /\ mpc = IF p = "weather" THEN "join_weather" ELSE "join_speech"
    /\ JoinEnds(ProducerAlive(p), waited)
    /\ mpc' = IF p = "weather" THEN "stop_speech" ELSE "stop_terminal"
    /\ UNCHANGED <<status, running, started, stopCalls, via, escaped, servers,
                   waited>>
    /\ UNCHANGED <<store, load, prod, ui, web, slock, wout>>

\* stop(): terminal_ui.stop() leaves the alternate screen and clears it.
StopTerminal ==
    /\ ProcessRuns
    /\ mpc = "stop_terminal"
    /\ mpc' = "stop_oled"
    /\ cleaned' = [cleaned EXCEPT !["terminal"] = TRUE]
    /\ UNCHANGED <<status, running, started, stopCalls, via, escaped, servers,
                   waited>>
    /\ UNCHANGED <<store, load, prod, web, slock, wout, isActive, cons, ucfg>>

\* stop(): oled_display.stop() reads is_active; when it is set the call of
\* display.cleanup() comes next, otherwise the OLED thread is joined if it
\* is alive.
StopOledTest ==
    /\ ProcessRuns
    /\ mpc = "stop_oled"
    /\ mpc' = IF isActive THEN "oled_cleanup"
              ELSE IF ConsumerAlive("oled") THEN "join_oled" ELSE "stop_done"
    /\ waited' = 0
    /\ UNCHANGED <<status, running, started, stopCalls, via, escaped, servers>>
    /\ UNCHANGED <<store, load, prod, ui, web, slock, wout>>

\* stop(): display.cleanup() blanks the display, which may raise out of
\* stop(); then the OLED thread is joined if it is alive.  What stop()
\* raises leaves start() when stop() was called by its wait loop, and
\* main() calls stop() again; raised in main()'s handler it ends the
\* process.
StopOled(raises) ==
    /\ ProcessRuns
    /\ mpc = "oled_cleanup"
    /\ cleaned' = [cleaned EXCEPT !["oled"] = ~raises]
    /\ waited' = 0
    /\ IF ~raises
       THEN /\ mpc' = IF ConsumerAlive("oled") THEN "join_oled" ELSE "stop_done"
            /\ UNCHANGED <<status, stopCalls, via, escaped>>
       ELSE IF via = "interrupt"
       THEN /\ mpc' = "stop_weather"
            /\ via' = "handler"
            /\ escaped' = "Exception"
            /\ stopCalls' = stopCalls + 1
            /\ UNCHANGED status
       ELSE /\ mpc' = "exited"
            /\ status' = "nonzero"
            /\ UNCHANGED <<stopCalls, via, escaped>>
    /\ UNCHANGED <<running, started, servers>>
    /\ UNCHANGED <<store, load, prod, web, slock, wout, isActive, cons, ucfg>>

\* stop(): self.oled_thread.join(timeout=1) returns.
JoinOled ==
    /\ ProcessRuns
    /\ mpc = "join_oled"
    /\ JoinEnds(ConsumerAlive("oled"), waited)
    /\ mpc' = "stop_done"
    /\ UNCHANGED <<status, running, started, stopCalls, via, escaped, servers,
                   waited>>
    /\ UNCHANGED <<store, load, prod, ui, web, slock, wout>>

\* stop() returns.  Called by the wait loop: start() and main() return and
\* the process ends with status 0.  Called by main()'s handler: `raise`
\* ends the process with a traceback.
StopReturns ==
    /\ ProcessRuns
    /\ mpc = "stop_done"
    /\ mpc' = "exited"
    /\ status' = IF via = "interrupt" THEN "zero" ELSE "nonzero"
    /\ UNCHANGED <<running, started, stopCalls, via, escaped, servers, waited>>
    /\ UNCHANGED <<store, load, prod, ui, web, slock, wout>>

\* A step of the main thread inside stop().
StopStep ==
    \/ \E p \in Producers : StopProducer(p) \/ JoinProducer(p)
    \/ StopTerminal
    \/ StopOledTest
    \/ \E r \in BOOLEAN : StopOled(r)
    \/ JoinOled
    \/ StopReturns

\* Of the producers' threads the steps that begin a cycle are taken here,
\* where the stop flag is looked at; a thread that has begun its cycle
\* stays inside it (SpecProd has the rest of the cycle).
NextApp ==
    \/ LoadConfig
    \/ BootSave
    \/ BootSaveFails
    \/ \E ok \in BOOLEAN : Construct(ok)
    \/ Begin
    \/ \E what \in {"assets", "boot_sound"} : Prepare(what)
    \/ \E p \in Producers : StartProducer(p)
    \/ \E sv \in {"config", "reboot"} : StartServer(sv)
    \/ \E c \in Consumers : StartConsumer(c)
    \/ \E kind \in Raised : StartRaises(kind)
    \/ Interrupt
    \/ \E p \in Producers : StopProducer(p)
    \/ \E p \in Producers : JoinProducer(p)
    \/ StopTerminal
    \/ StopOledTest
    \/ \E r \in BOOLEAN : StopOled(r)
    \/ JoinOled
    \/ StopReturns
    \/ \E c \in Consumers : DrawPart(c)
    \/ \E c \in Consumers : RenderFails(c)
    \/ \E c \in Consumers : Sleep(c)
    \/ Second
    \/ \E i \in 1..MaxStarts : WBegin(i)
    \/ \E i \in 1..MaxStarts : SBegin(i)

SpecApp == Init /\ [][NextApp]_vars

\* The main thread is scheduled and time passes; a producer or a consumer
\* may stay inside an external call for ever.
SpecAppFair ==
    /\ SpecApp
    /\ WF_vars(StopStep)
    /\ WF_vars(Second)

(***************************************************************************)
(* POST /save of the config web server (ribbon/web_config.py, the same in  *)
(* web_config.py and main.py).                                             *)
(***************************************************************************)
\* A form field that the request does not have.
NoField == "<absent>"

\* What the lat and lon fields of a request hold.
NumberInputs == {NoField, "12.5", " 7 ", "nan", "abc", ""}

\* The requests: lat, lon, units, and the weather_enabled checkbox.
Forms == [lat : NumberInputs, lon : NumberInputs,
          units : {NoField, "metric"}, weather_enabled : {NoField, "on"}]

\* request.form.get(name, default).
FormGet(f, name, default) == IF f[name] = NoField THEN default ELSE f[name]

\* float(s): the number, written as Python prints it, or ValueError.
FloatRaises(s) == s \in {"abc", ""}
Float(s) ==
    CASE s = "0"    -> "0.0"
      [] s = "12.5" -> "12.5"
      [] s = " 7 "  -> "7.0"
      [] s = "nan"  -> "nan"

\* try: lat = float(...); lon = float(...)
\* except ValueError: lat, lon = 0.0, 0.0
LatLon(f) ==
    LET a == FormGet(f, "lat", "0")
        o == FormGet(f, "lon", "0")
    IN  IF FloatRaises(a) \/ FloatRaises(o)
        THEN [lat |-> "0.0", lon |-> "0.0"]
        ELSE [lat |-> Float(a), lon |-> Float(o)]

\* The weather section of the patch save() builds.
WeatherPatch(f) ==
    [enabled   |-> (FormGet(f, "weather_enabled", "") # ""),
     latitude  |-> LatLon(f).lat,
     longitude |-> LatLon(f).lon,
     units     |-> FormGet(f, "units", "imperial")]

\* A POST /save arrives.
PostSave(f) ==
    /\ form = <<>>
    /\ form' = f
    /\ sent' = <<>>
    /\ reply' = "none"
    /\ UNCHANGED <<store, load, prod, life, ui, slock, wout>>

\* What the file system does to save(): nothing, os.makedirs(ASSETS_DIR)
\* raises, or the write of config.json inside update_config raises.
SaveIO == {"ok", "makedirs_raises", "write_raises"}

\* save(): the fields are read, the patch is built and given to
\* update_config, and the page is returned; an exception that leaves
\* save() is answered by the server with status 500.
Save(io) ==
    /\ form # <<>> /\ reply = "none"
    /\ IF io = "makedirs_raises"
       THEN UNCHANGED <<sent, wcfg>>
       ELSE /\ sent' = WeatherPatch(form)
            /\ wcfg' = [wcfg EXCEPT !.enabled = WeatherPatch(form).enabled]
    /\ reply' = IF io = "ok" THEN "Saved" ELSE "500"
    /\ UNCHANGED <<store, load, scfg, stopEv, thread, tasks, nstart, summary, age,
                   sinceAttempt, lastFailed, life, ui, slock, wout, form>>

\* The response is sent and the request is over.
Respond ==
    /\ form # <<>> /\ reply # "none"
    /\ form' = <<>>
    /\ UNCHANGED <<store, load, prod, life, ui, slock, wout, sent, reply>>

NextSave ==
    \/ \E f \in Forms : PostSave(f)
    \/ \E io \in SaveIO : Save(io)
    \/ Respond

SpecSave == InitUI /\ [][NextSave]_vars

(***************************************************************************)
(* POST /save on the stored tree: the patch save() builds is merged by     *)
(* update_config into a tree with all six sections.                        *)
(***************************************************************************)
BACKGROUND_PATH == "config/background.png"
BOOT_SOUND_PATH == "config/boot.wav"

\* json.dumps of a bool.
Bool(b) == IF b THEN "true" ELSE "false"

\* DEFAULT_CONFIG with its six sections, one key kept in each section that
\* save() does not name.
SectionsTree ==
    D( "terminal"   :> D("refresh_s" :> S("1.0"))
    @@ "oled"       :> D("refresh_s" :> S("1.0"))
    @@ "weather"    :> D("enabled" :> S("true") @@ "latitude" :> S("37.7749")
                         @@ "longitude" :> S("-122.4194") @@ "units" :> S("imperial")
                         @@ "refresh_s" :> S("300"))
    @@ "background" :> D("enabled" :> S("true") @@ "path" :> S(BACKGROUND_PATH))
    @@ "audio"      :> D("enabled" :> S("true") @@ "path" :> S(BOOT_SOUND_PATH))
    @@ "web"        :> D("config_port" :> S("5000")) )

\* What load_config has made of config.json: the defaults, the defaults
\* under a file that gave other values and one more key, and the defaults
\* under a file whose weather and background are not maps.
StoredTrees ==
    { SectionsTree,
      D( "terminal"   :> D("refresh_s" :> S("2.0"))
      @@ "oled"       :> D("refresh_s" :> S("0.5"))
      @@ "weather"    :> D("enabled" :> S("false") @@ "latitude" :> S("0.0")
                           @@ "longitude" :> S("0.0") @@ "units" :> D("si" :> S("true"))
                           @@ "refresh_s" :> S("15"))
      @@ "background" :> D("enabled" :> S("false") @@ "path" :> S("/home/pi/own.png")
                           @@ "fit" :> S("cover"))
      @@ "audio"      :> D("enabled" :> S("false") @@ "path" :> S("/home/pi/own.wav"))
      @@ "web"        :> D("config_port" :> S("8080")) ),
      D( "terminal"   :> D("refresh_s" :> S("1.0"))
      @@ "oled"       :> D("refresh_s" :> S("1.0"))
      @@ "weather"    :> S("off")
      @@ "background" :> L(<<"own.png">>)
      @@ "audio"      :> D("enabled" :> S("true") @@ "path" :> S(BOOT_SOUND_PATH))
      @@ "web"        :> D("config_port" :> S("5000")) ) }

\* The requests: the fields of Forms, the two other checkboxes and the name
\* of the uploaded background file.
FullForms ==
    [lat : {"12.5", "abc"}, lon : {NoField}, units : {NoField, "metric"},
     weather_enabled : {NoField, "on"}, bg_enabled : {NoField, "on"},
     audio_enabled : {NoField, "on"}, background : {NoField, "photo.png"}]

\* The dict save() gives to update_config.
SavePatch(f) ==
    D( "weather"    :> D("enabled" :> S(Bool(WeatherPatch(f).enabled))
                         @@ "latitude" :> S(WeatherPatch(f).latitude)
                         @@ "longitude" :> S(WeatherPatch(f).longitude)
                         @@ "units" :> S(WeatherPatch(f).units))
    @@ "background" :> D("enabled" :> S(Bool(FormGet(f, "bg_enabled", "") # ""))
                         @@ "path" :> S(BACKGROUND_PATH))
    @@ "audio"      :> D("enabled" :> S(Bool(FormGet(f, "audio_enabled", "") # ""))
                         @@ "path" :> S(BOOT_SOUND_PATH)) )

\* CONFIG holds one of the stored trees and the requests of the run carry
\* one form.
InitForm ==
    /\ \E tr \in StoredTrees :
         LET d == Build(<<>>, DefaultTree, DEFAULT_CONFIG.ref)
             c == Build(d.h, tr, Addr("CONFIG", 0))
         IN  /\ heap = c.h /\ CONFIG = c.v
             /\ file = Json(tr)
             /\ loaded = tr
    /\ boot = "running"
    /\ lock = {}
    /\ pc = [t \in Threads |-> "idle"]
    /\ patch = [t \in Threads |-> None]
    /\ snap = [t \in Threads |-> None]
    /\ stack = [t \in Threads |-> <<>>]
    /\ ncalls = 0 /\ nupd = 0
    /\ applied = <<>>
    /\ done = 0
    /\ preTree = D(<<>>)
    /\ startDone = [t \in Threads |-> 0]
    /\ snapLo = [t \in Threads |-> 0]
    /\ snapHi = [t \in Threads |-> 0]
    /\ failed = FALSE
    /\ ProducersNotBuilt
    /\ PiOLEDBuilt
    /\ mpc = "main" /\ status = "running" /\ running = FALSE
    /\ started = <<>> /\ stopCalls = 0 /\ via = "none" /\ escaped = "none"
    /\ servers = {} /\ isActive = FALSE
    /\ cons = [c \in Consumers |-> Consumer("none")]
    /\ ucfg = [c \in Consumers |-> [style |-> "a", refresh_s |-> 1]]
    /\ cleaned = [c \in Consumers |-> FALSE] /\ waited = 0
    /\ slock = {} /\ wout = "none"
    /\ form \in FullForms
    /\ sent = <<>> /\ reply = "none"

\* save(): update_config is called with the patch built from the form.
SaveUpdate(t) == UpdAcquire(t, SavePatch(form))

NextForm ==
    \/ CallUpdate(1)
    \/ SaveUpdate(1)
    \/ UpdMerge(1)
    \/ UpdSave(1)
    \/ UpdSaveFails(1)
    \/ UpdFinish(1)

SpecForm == InitForm /\ [][NextForm]_vars

(***************************************************************************)
(* The loading animation of PiOLED (small.py): start_loading and           *)
(* stop_loading, called by one thread, and the threads running animate().  *)
(* A thread started with a speed above the join timeout of 1.0 s is slow.  *)
(***************************************************************************)
Anim(at, slow) == [pc |-> at, slow |-> slow]

AnimAlive(a) == a.pc # "exited"

\* _loading_thread.join(timeout=1.0) returns: the thread has ended, or it
\* is in a time.sleep(speed) that outlasts the timeout.
LoadJoinEnds ==
    \/ ldThread = 0
    \/ ~AnimAlive(anim[ldThread])
    \/ anim[ldThread].pc = "sleep" /\ anim[ldThread].slow

\* start_loading(speed=...): stop_loading() is called first, which sets the
\* event and joins when _loading_active is set.
StartLoading(slow) ==
    /\ ldpc.at = "idle" /\ nload < MaxLoads
    /\ nload' = nload + 1
    /\ IF ldActive
       THEN /\ ldStop' = TRUE
            /\ ldpc' = [at |-> "start_join", slow |-> slow]
       ELSE /\ ldpc' = [at |-> "start_rest", slow |-> slow]
            /\ UNCHANGED ldStop
    /\ UNCHANGED <<ldActive, ldThread, anim>>
    /\ UNCHANGED <<store, prod, life, ui, web, slock, wout>>

\* stop_loading() with _loading_active set: the event is set and the join
\* begins.
StopLoading ==
    /\ ldpc.at = "idle" /\ ldActive
    /\ ldStop' = TRUE
    /\ ldpc' = [at |-> "stop_join", slow |-> FALSE]
    /\ UNCHANGED <<ldActive, ldThread, anim, nload>>
    /\ UNCHANGED <<store, prod, life, ui, web, slock, wout>>

\* stop_loading(): the join returns, _loading_active = False, and
\* stop_loading returns to its caller.
LoadJoin ==
    /\ ldpc.at \in {"start_join", "stop_join"}
    /\ LoadJoinEnds
    /\ ldActive' = FALSE
    /\ ldpc' = IF ldpc.at = "start_join" THEN [ldpc EXCEPT !.at = "start_rest"]
              ELSE [at |-> "idle", slow |-> FALSE]
    /\ UNCHANGED <<ldStop, ldThread, anim, nload>>
    /\ UNCHANGED <<store, prod, life, ui, web, slock, wout>>

\* start_loading: the event is cleared, _loading_active = True, and the
\* thread running animate() is created and started.
LoadSpawn ==
    /\ ldpc.at = "start_rest"
    /\ ldStop' = FALSE
    /\ ldActive' = TRUE
    /\ anim' = Append(anim, Anim("test", ldpc.slow))
    /\ ldThread' = Len(anim) + 1
    /\ ldpc' = [at |-> "idle", slow |-> FALSE]
    /\ UNCHANGED nload
    /\ UNCHANGED <<store, prod, life, ui, web, slock, wout>>

\* animate(): `while not self._loading_stop.is_set()`.
AnimTest(i) ==
    /\ i \in 1..Len(anim) /\ anim[i].pc = "test"
    /\ anim' = [anim EXCEPT ![i].pc = IF ldStop THEN "leave" ELSE "draw"]
    /\ UNCHANGED <<ldActive, ldStop, ldThread, ldpc, nload>>
    /\ UNCHANGED <<store, prod, life, ui, web, slock, wout>>

\* animate(): the frame is drawn into the buffer and shown, and
\* time.sleep(speed) begins.
AnimDraw(i) ==
    /\ i \in 1..Len(anim) /\ anim[i].pc = "draw"
    /\ anim' = [anim EXCEPT ![i].pc = "sleep"]
    /\ UNCHANGED <<ldActive, ldStop, ldThread, ldpc, nload>>
    /\ UNCHANGED <<store, prod, life, ui, web, slock, wout>>

\* animate(): time.sleep(speed) ends.
AnimWake(i) ==
    /\ i \in 1..Len(anim) /\ anim[i].pc = "sleep"
    /\ anim' = [anim EXCEPT ![i].pc = "test"]
    /\ UNCHANGED <<ldActive, ldStop, ldThread, ldpc, nload>>
    /\ UNCHANGED <<store, prod, life, ui, web, slock, wout>>

\* animate(): after the loop, _loading_active = False, and the thread ends.
AnimLeave(i) ==
    /\ i \in 1..Len(anim) /\ anim[i].pc = "leave"
    /\ anim' = [anim EXCEPT ![i].pc = "exited"]
    /\ ldActive' = FALSE
    /\ UNCHANGED <<ldStop, ldThread, ldpc, nload>>
    /\ UNCHANGED <<store, prod, life, ui, web, slock, wout>>

NextLoad ==
    \/ \E slow \in BOOLEAN : StartLoading(slow)
    \/ StopLoading
    \/ LoadJoin
    \/ LoadSpawn
    \/ \E i \in 1..MaxLoads : AnimTest(i)
    \/ \E i \in 1..MaxLoads : AnimDraw(i)
    \/ \E i \in 1..MaxLoads : AnimWake(i)
    \/ \E i \in 1..MaxLoads : AnimLeave(i)

SpecLoad == InitUI /\ [][NextLoad]_vars

(***************************************************************************)
(* The running process: both producers' threads, both render threads and   *)
(* the web form of the control plane, each taking its steps.               *)
(***************************************************************************)
\* start() has started the producers: each has one thread, at the top of
\* _run.
ProducersStarted ==
    /\ wcfg = [enabled |-> TRUE, refresh_s |-> SleepS]
    /\ scfg = [enabled |-> TRUE]
    /\ stopEv = [p \in Producers |-> FALSE]
    /\ thread = [p \in Producers |-> 1]
    /\ tasks = [p \in Producers |-> <<Task("top")>>]
    /\ nstart = [p \in Producers |-> 1]
    /\ summary = UNAVAILABLE
    /\ age = Cap
    /\ sinceAttempt = Cap
    /\ lastFailed = FALSE

InitRun == StoreLoaded /\ ProducersStarted /\ UIStarted

NextRun ==
    \/ WBegin(1)
    \/ WBranch(1)
    \/ \E out \in FetchOutcomes : WFetchDone(1, out)
    \/ Tick
    \/ SBegin(1)
    \/ \E ok \in BOOLEAN : SSetup(1, ok)
    \/ SLoop(1)
    \/ \E ok \in BOOLEAN : SHear(1, ok)
    \/ \E c \in Consumers : DrawPart(c)
    \/ \E c \in Consumers : RenderFails(c)
    \/ \E c \in Consumers : Sleep(c)
    \/ Second
    \/ \E b \in BOOLEAN : SetWeatherEnabled(b)
    \/ \E b \in BOOLEAN : SetSpeechEnabled(b)

SpecRun == InitRun /\ [][NextRun]_vars

(***************************************************************************)
(* What the claims speak of.                                               *)
(***************************************************************************)
\* The stored tree, and the tree thread t was given by get_config.
Stored      == TreeOf(heap, CONFIG)
Snapshot(t) == TreeOf(heap, snap[t])

Missing == S("<missing>")

RECURSIVE Lookup(_, _)
\* The subtree of tr at a key path, Missing when the path leaves the tree.
Lookup(tr, path) ==
    IF path = <<>> THEN tr
    ELSE IF tr.t = "d" /\ path[1] \in DOMAIN tr.d
         THEN Lookup(tr.d[path[1]], Tail(path))
         ELSE Missing

RECURSIVE Paths(_)
\* The key paths of a tree (the root excluded).
Paths(tr) ==
    IF tr.t # "d" THEN {}
    ELSE UNION { {<<k>>} \cup { <<k>> \o p : p \in Paths(tr.d[k]) } : k \in DOMAIN tr.d }

RECURSIVE MergeTree(_, _)
\* The deep merge of tree b onto tree a, as a function of the two contents.
MergeTree(a, b) ==
    D([k \in DOMAIN a.d \cup DOMAIN b.d |->
         IF k \notin DOMAIN b.d THEN a.d[k]
         ELSE IF k \in DOMAIN a.d /\ a.d[k].t = "d" /\ b.d[k].t = "d"
              THEN MergeTree(a.d[k], b.d[k])
              ELSE b.d[k]])

RECURSIVE MergeAll(_, _)
\* The patches of ps merged onto tr one after another.
MergeAll(tr, ps) ==
    IF ps = <<>> THEN tr ELSE MergeAll(MergeTree(tr, Head(ps)), Tail(ps))

\* The key paths of a tree that end in a scalar or a list.
LeafPaths(tr) == {p \in Paths(tr) : Lookup(tr, p).t # "d"}

IsPrefix(q, p) == Len(q) <= Len(p) /\ SubSeq(p, 1, Len(q)) = q

\* Patch tr assigns at, above or below key path p.
Touches(tr, p) == \E q \in Paths(tr) : IsPrefix(q, p) \/ IsPrefix(p, q)

\* A valid patch: a partial tree of the shape of the default tree.
Valid(tr) ==
    \A q \in Paths(tr) : Lookup(tr, q).t = Lookup(DefaultTree, q).t

(***************************************************************************)
(* C1: with get_config calls running beside an update_config, every        *)
(* snapshot returned is a whole tree: the stored tree as it was before     *)
(* the patch or as it is after it, the result of merging all the patches   *)
(* of the calls ended when the copy was made, or those and the one then    *)
(* running; never a tree with some of a patch's leaf changes only.         *)
(***************************************************************************)
C1_SnapshotNotTorn ==
    \A t \in Threads :
        pc[t] = "got" =>
            Snapshot(t) \in { MergeAll(loaded, SubSeq(applied, 1, n)) :
                                n \in snapLo[t]..snapHi[t] }

\* A get_config call during which an update_config changed the tree and ended.
C1_Witness ==
    \E t \in Threads :
        /\ pc[t] = "got" /\ startDone[t] < snapLo[t]
        /\ Snapshot(t) # MergeAll(loaded, SubSeq(applied, 1, startDone[t]))

(***************************************************************************)
(* C2: after valid patches P1 then P2 on the tree loaded as the defaults,  *)
(* a snapshot has, at every leaf key path, P2's value where P2 gives one,  *)
(* else P1's value where P1 gives one, else the default; it has no other   *)
(* key.                                                                    *)
(***************************************************************************)
C2_SequentialPatches ==
    \A t \in Threads :
        ( /\ pc[t] = "got" /\ snapLo[t] = 2 /\ snapHi[t] = 2
          /\ loaded = DefaultTree
          /\ Valid(applied[1]) /\ Valid(applied[2]) )
        => /\ Paths(Snapshot(t)) = Paths(DefaultTree)
           /\ \A p \in LeafPaths(DefaultTree) :
                Lookup(Snapshot(t), p) =
                    IF p \in LeafPaths(applied[2]) THEN Lookup(applied[2], p)
                    ELSE IF p \in LeafPaths(applied[1]) THEN Lookup(applied[1], p)
                    ELSE Lookup(DefaultTree, p)

\* A snapshot after two patches where all three kinds of key occur: one only
\* P1 gives, one P2 gives over P1, and one in another section left as loaded.
C2_Witness ==
    \E t \in Threads :
        /\ pc[t] = "got" /\ snapLo[t] = 2 /\ snapHi[t] = 2
        /\ loaded = DefaultTree
        /\ Valid(applied[1]) /\ Valid(applied[2])
        /\ <<"weather", "latitude">> \in LeafPaths(applied[1]) \ LeafPaths(applied[2])
        /\ <<"weather", "units">> \in LeafPaths(applied[1]) \cap LeafPaths(applied[2])
        /\ Lookup(applied[1], <<"weather", "units">>) # Lookup(applied[2], <<"weather", "units">>)
        /\ Lookup(Snapshot(t), <<"weather", "latitude">>) = S("0.0")
        /\ Lookup(Snapshot(t), <<"terminal", "colors">>) = L(<<"97m">>)

(***************************************************************************)
(* C3: a get_config call that starts after an update_config has ended      *)
(* returns a tree that has that patch's value at each of its leaf key      *)
(* paths, unless a patch applied after it assigned there.                  *)
(***************************************************************************)
C3_SnapshotSeesEndedUpdates ==
    \A t \in Threads :
        pc[t] = "got" =>
            \A i \in 1..startDone[t] :
                \A p \in LeafPaths(applied[i]) :
                    \/ Lookup(Snapshot(t), p) = Lookup(applied[i], p)
                    \/ \E j \in (i + 1)..snapHi[t] : Touches(applied[j], p)

\* A snapshot, asked for after an update ended, with a value of its patch
\* that the loaded tree did not have.
C3_Witness ==
    \E t \in Threads :
        /\ pc[t] = "got" /\ startDone[t] >= 1
        /\ \E p \in LeafPaths(applied[1]) :
             /\ Lookup(Snapshot(t), p) = Lookup(applied[1], p)
             /\ Lookup(loaded, p) # Lookup(applied[1], p)

(***************************************************************************)
(* C4: at most one thread is inside the critical section of CONFIG_LOCK,   *)
(* and whenever none is, the stored tree is the loaded tree with the       *)
(* patches merged one after another in the order the lock was acquired.    *)
(***************************************************************************)
C4_UpdatesSerialized ==
    /\ Cardinality(lock) <= 1
    /\ lock = {} => Stored = MergeAll(loaded, applied)

\* Two update_config calls at once: one has merged its patch and is still
\* inside the critical section, the other waits for the lock.
C4_Witness ==
    \E t, u \in Threads :
        /\ pc[t] = "upd_cs" /\ stack[t] = <<>> /\ pc[u] = "upd_wait"
        /\ Stored # preTree

(***************************************************************************)
(* C5: a caller's in-place change of the tree get_config gave it changes   *)
(* neither the stored tree, nor DEFAULT_CONFIG, nor the snapshot of any    *)
(* other thread.                                                           *)
(***************************************************************************)
C5_SnapshotsIndependent ==
    [][ \A t \in Threads :
          (pc[t] = "got" /\ pc'[t] = "mutated") =>
              /\ TreeOf(heap', CONFIG') = TreeOf(heap, CONFIG)
              /\ TreeOf(heap', DEFAULT_CONFIG) = TreeOf(heap, DEFAULT_CONFIG)
              /\ \A u \in Threads \ {t} :
                   TreeOf(heap', snap'[u]) = TreeOf(heap, snap[u]) ]_vars

\* A snapshot changed in all its dicts and lists while the other thread
\* holds a snapshot of the same stored tree, which still is as stored.
C5_Witness ==
    \E t, u \in Threads :
        /\ pc[t] = "mutated" /\ pc[u] = "got"
        /\ Lookup(Snapshot(t), <<"terminal", "colors">>).l # Lookup(Stored, <<"terminal", "colors">>).l
        /\ Lookup(Snapshot(t), <<"weather", "x">>) = S("X")
        /\ Snapshot(u) = Stored

(***************************************************************************)
(* C6: the stored tree is owned by the store alone: when a caller of       *)
(* update_config changes its patch in place after the call has returned,   *)
(* the stored tree does not change.                                        *)
(***************************************************************************)
C6_PatchNotShared ==
    [][ \A t \in Threads :
          (pc[t] \in {"upd_ret", "upd_raised"} /\ pc'[t] = "patch_mutated") =>
              TreeOf(heap', CONFIG') = TreeOf(heap, CONFIG) ]_vars

(***************************************************************************)
(* C7: a failed write of config.json inside update_config is swallowed:    *)
(* no update_config call ends by raising to its caller.  (That the stored  *)
(* tree has the patch merged all the same is part of C4.)                  *)
(***************************************************************************)
C7_WriteFailureSwallowed == \A t \in Threads : pc[t] # "upd_raised"

\* A config.json that is no JSON text, or is JSON for a value that is no map.
Unparsable(f) == f.kind = "corrupt" \/ (f.kind = "json" /\ f.tree.t # "d")

(***************************************************************************)
(* C8: load_config with a config.json that is no JSON text, or is JSON for *)
(* a value that is no map, does not raise and returns the default tree;    *)
(* DEFAULT_CONFIG itself stays as it is.                                   *)
(***************************************************************************)
C8_CorruptFileGivesDefaults ==
    /\ boot # "load_raised"
    /\ (boot = "loaded" /\ Unparsable(file)) =>
           /\ Stored = DefaultTree
           /\ TreeOf(heap, DEFAULT_CONFIG) = DefaultTree
           /\ CONFIG # DEFAULT_CONFIG

\* load_config has returned the defaults for a file holding a JSON list.
C8_Witness ==
    /\ boot = "loaded" /\ file.kind = "json" /\ file.tree.t = "l"
    /\ Stored = DefaultTree

(***************************************************************************)
(* C9: load_config with a config.json that holds a map keeps the default   *)
(* value at every key path of the defaults that the file lacks or gives a  *)
(* value of another type (a section given as a scalar still is the map of  *)
(* its defaults).                                                          *)
(***************************************************************************)
C9_DefaultsKeptForInvalidKeys ==
    (boot = "loaded" /\ file.kind = "json" /\ file.tree.t = "d") =>
        \A p \in Paths(DefaultTree) :
            ( \/ Lookup(file.tree, p) = Missing
              \/ Lookup(file.tree, p).t # Lookup(DefaultTree, p).t )
            => Lookup(Stored, p) = Lookup(DefaultTree, p)

\* Thread t has finished its merge and still holds the lock.
MergedBy(t) == pc[t] = "upd_cs" /\ stack[t] = <<>>

LastPatch == applied[Len(applied)]

\* The patch puts a scalar or a list at a proper ancestor of key path p.
Replaced(tr, p) ==
    \E n \in 1..(Len(p) - 1) :
        /\ SubSeq(p, 1, n) \in Paths(tr)
        /\ Lookup(tr, SubSeq(p, 1, n)).t # "d"

(***************************************************************************)
(* C10, for every path: when update_config has merged its patch (here even *)
(* a patch of the shape of the defaults), every key path that the stored   *)
(* tree had and the patch does not have holds the value it held before the *)
(* call.                                                                   *)
(***************************************************************************)
C10_UnmentionedKeysKept ==
    \A t \in Threads :
        (MergedBy(t) /\ Valid(LastPatch)) =>
            \A p \in Paths(preTree) \ Paths(LastPatch) :
                Lookup(Stored, p) = Lookup(preTree, p)

(***************************************************************************)
(* C10, for the paths under no replaced ancestor: when update_config has   *)
(* merged its patch, every key path that the stored tree had and the patch *)
(* does not have holds the value it held before the call, unless the patch *)
(* gives one of its ancestors a value that is no map (that value replaces  *)
(* the ancestor's whole subtree).                                          *)
(***************************************************************************)
C10_UnmentionedKeysKeptUnlessReplaced ==
    \A t \in Threads :
        MergedBy(t) =>
            \A p \in Paths(preTree) \ Paths(LastPatch) :
                ~Replaced(LastPatch, p) => Lookup(Stored, p) = Lookup(preTree, p)

\* A patch with weather.units only has been merged: units is changed,
\* weather.latitude and the terminal section are as before.
C10_Witness ==
    \E t \in Threads :
        /\ MergedBy(t)
        /\ <<"weather", "units">> \in Paths(LastPatch)
        /\ <<"weather", "latitude">> \in Paths(preTree) \ Paths(LastPatch)
        /\ Lookup(Stored, <<"weather", "units">>) # Lookup(preTree, <<"weather", "units">>)
        /\ Lookup(Stored, <<"weather", "latitude">>) = Lookup(preTree, <<"weather", "latitude">>)

(***************************************************************************)
(* C12: a list in a patch replaces the stored list whole: when             *)
(* update_config has merged its patch, the stored tree holds, at every key *)
(* path where the patch has a list, exactly the list of the patch, with no *)
(* element of the list that was there before.                              *)
(***************************************************************************)
C12_ListReplacedWholesale ==
    \A t \in Threads :
        MergedBy(t) =>
            \A p \in LeafPaths(LastPatch) :
                Lookup(LastPatch, p).t = "l" =>
                    Lookup(Stored, p) = Lookup(LastPatch, p)

\* terminal.colors held two colours and the patch gave a list of one.
C12_Witness ==
    \E t \in Threads :
        /\ MergedBy(t)
        /\ Lookup(preTree, <<"terminal", "colors">>) = L(<<"91m", "92m">>)
        /\ Lookup(LastPatch, <<"terminal", "colors">>) = L(<<"97m">>)
        /\ Lookup(Stored, <<"terminal", "colors">>) = L(<<"97m">>)

(***************************************************************************)
(* C14: update_config({}) leaves the stored tree as it was when the call   *)
(* took the lock, and its save_config writes that whole tree to            *)
(* config.json, whatever the file held.                                    *)
(***************************************************************************)
C14_EmptyPatchRewrites ==
    [][ \A t \in Threads :
          (pc[t] = "upd_cs" /\ pc'[t] = "upd_ret" /\ LastPatch = D(<<>>)) =>
              /\ TreeOf(heap', CONFIG') = preTree
              /\ file' = Json(preTree) ]_vars

\* update_config({}) has returned after an update whose write failed: the
\* file, which lacked that update, now holds the stored tree.
C14_Witness ==
    \E t \in Threads :
        /\ pc[t] = "upd_ret" /\ lock = {}
        /\ Len(applied) = 2 /\ applied[2] = D(<<>>)
        /\ failed /\ Stored # loaded
        /\ file = Json(Stored)

(***************************************************************************)
(* C15: once main() has loaded and saved, whenever no thread is inside     *)
(* update_config's critical section and no write has failed, config.json   *)
(* holds exactly the stored tree.                                          *)
(***************************************************************************)
C15_FileEqualsStoredTree ==
    (boot = "running" /\ lock = {} /\ ~failed) => file = Json(Stored)

\* Two updates have ended and changed the tree that was loaded.
C15_Witness ==
    /\ boot = "running" /\ lock = {} /\ ~failed
    /\ done = 2 /\ Stored # loaded
    /\ file = Json(Stored)

(***************************************************************************)
(* C11: _deep_update(target, updates), for all trees of the bounded depth  *)
(* and whatever the order of the keys, leaves in target the deep merge of  *)
(* updates onto it: a key of updates whose value and whose value in target *)
(* are both maps is merged recursively, any other key of updates holds the *)
(* value of updates, and the other keys of target are as before.           *)
(***************************************************************************)
C11_DeepUpdateIsDeepMerge ==
    \A t \in Threads :
        MergedBy(t) => Stored = MergeTree(preTree, LastPatch)

\* A merge with a map put over a scalar, a recursion into a map, and in it
\* a list put over a list.
C11_Witness ==
    \E t \in Threads :
        /\ MergedBy(t)
        /\ preTree = D("a" :> S("0") @@ "b" :> D("a" :> L(<<"1", "2">>)))
        /\ LastPatch = D("a" :> D("a" :> S("1")) @@ "b" :> D("a" :> L(<<"3">>)))
        /\ Stored = D("a" :> D("a" :> S("1")) @@ "b" :> D("a" :> L(<<"3">>)))

(***************************************************************************)
(* C13: update_config(P) called again with the same P, for every P and     *)
(* every stored tree of the bounded depth, leaves the stored tree and      *)
(* config.json as the call before it left them.                            *)
(***************************************************************************)
C13_MergeIdempotent ==
    \A t \in Threads :
        (Len(applied) >= 2 /\ applied[Len(applied)] = applied[Len(applied) - 1]) =>
            /\ MergedBy(t) => Stored = preTree
            /\ pc[t] = "upd_ret" => (Stored = preTree /\ file = Json(preTree))

\* The second call has returned; the patch had changed the tree the first
\* time, and its own list is in the stored tree.
C13_Witness ==
    \E t \in Threads :
        /\ pc[t] = "upd_ret" /\ Len(applied) = 2
        /\ applied[1] = applied[2]
        /\ Lookup(applied[1], <<"a">>) = L(<<"3">>)
        /\ Lookup(loaded, <<"a">>) = L(<<"1", "2">>)
        /\ Stored = preTree /\ Stored # loaded
        /\ file = Json(Stored)

(***************************************************************************)
(* C16: whenever weather.enabled is false in the stored tree,              *)
(* WeatherProvider.get_summary() returns "Weather: off".                   *)
(***************************************************************************)
C16_DisabledAlwaysReportsOff ==
    ~wcfg.enabled => summary = DISABLED

\* The threads of the weather provider.
WTasks == tasks["weather"]

(***************************************************************************)
(* C17: a fetch that ends without a report leaves "Weather: --" as the     *)
(* summary and the polling thread in its loop, no fetch ever ends the      *)
(* thread, and after a fetch without a report the next fetch is begun only *)
(* when the refresh_s of the thread's snapshot has passed since that fetch *)
(* was begun.                                                              *)
(***************************************************************************)
C17_FailedFetchWaitsForRefresh ==
    [][ \A i \in 1..Len(WTasks) :
          /\ tasks'["weather"][i].pc # "raised"
          /\ (WTasks[i].pc = "fetch" /\ tasks'["weather"][i].pc # "fetch" /\ lastFailed') =>
                 (summary' = UNAVAILABLE /\ tasks'["weather"][i].pc = "nap")
          /\ (WTasks[i].pc = "branch" /\ tasks'["weather"][i].pc = "fetch" /\ lastFailed) =>
                 sinceAttempt >= WTasks[i].rf ]_vars

\* A fetch has just been begun after one that failed, with a refresh_s of
\* more than one sleep of the loop.
C17_Witness ==
    \E i \in 1..Len(WTasks) :
        /\ WTasks[i].pc = "fetch" /\ WTasks[i].rf > SleepS
        /\ lastFailed /\ sinceAttempt = 0
        /\ summary = UNAVAILABLE

\* The threads of producer p that are alive.
AliveTasks(p) == {i \in 1..Len(tasks[p]) : Alive(tasks[p][i])}

(***************************************************************************)
(* C18: whatever start() calls were made on the WeatherProvider and on the *)
(* SpeechListener, each has one thread alive at most, and that thread is   *)
(* its _thread.                                                            *)
(***************************************************************************)
C18_OneTaskPerProducer ==
    \A p \in Producers :
        /\ Cardinality(AliveTasks(p)) <= 1
        /\ AliveTasks(p) \subseteq {thread[p]}

\* start() was called twice on a producer, which has the one thread of the
\* first call.
C18_Witness ==
    \E p \in Producers :
        nstart[p] = 2 /\ Len(tasks[p]) = 1 /\ AliveTasks(p) = {1}

(***************************************************************************)
(* C19: a producer that finds itself disabled waits and checks again: no   *)
(* thread of a WeatherProvider or SpeechListener ends because the producer *)
(* was disabled, unless stop was signalled.                                *)
(***************************************************************************)
C19_DisabledProducerKeepsPolling ==
    \A p \in Producers :
        \A i \in 1..Len(tasks[p]) :
            tasks[p][i].pc = "off_exit" => stopEv[p]

\* Where _run tests the stop flag.
LoopTop(p) == IF p = "weather" THEN "top" ELSE "listen"

WritesFile(t) == pc[t] = "upd_cs" /\ pc'[t] \in {"upd_ret", "upd_raised"}

C22_NoLockHeldDuringIO ==
    [][\A t \in Threads : WritesFile(t) => t \notin lock]_vars

(***************************************************************************)
(* C21: while the weather thread is inside _fetch_weather it holds neither *)
(* CONFIG_LOCK nor the lock of its summary, so a get_config, update_config *)
(* or get_summary of another thread does not wait for the fetch.           *)
(***************************************************************************)
Fetching == \E i \in 1..Len(WTasks) : WTasks[i].pc = "fetch"

C21_FetchHoldsNoLock ==
    Fetching => (WeatherThread \notin lock /\ "weather" \notin slock)

\* A fetch is under way after the thread has taken and released CONFIG_LOCK
\* in get_config and its own lock in an earlier _set_summary, and a render
\* thread is inside get_summary meanwhile.
C21_Witness ==
    /\ Fetching
    /\ summary = DISABLED
    /\ slock \cap Consumers # {}

(***************************************************************************)
(* C24: a consumer takes one snapshot per tick and draws the whole frame   *)
(* from it, so that all the parts of one frame are drawn with the style of *)
(* one version of the config tree.                                         *)
(***************************************************************************)
C24_FrameFromOneSnapshot == \A c \in Consumers : Cardinality(cons[c].seen) <= 1

(***************************************************************************)
(* C25: a consumer reads its refresh interval again on every iteration:    *)
(* every sleep it begins lasts the refresh_s that the store holds then,    *)
(* so the value of an update_config that has ended is used from the next   *)
(* sleep on, with the same thread.                                         *)
(***************************************************************************)
BeginsSleep(c) == cons[c].pc = "draw" /\ cons'[c].pc = "sleep"

C25_SleepUsesStoredRefresh ==
    [][\A c \in Consumers : BeginsSleep(c) => cons'[c].nap = ucfg[c].refresh_s]_vars

\* A render thread begins a sleep of the longest refresh_s, which an
\* update_config has set while the thread was running.
C25_Witness ==
    \E c \in Consumers :
        /\ cons[c].pc = "sleep" /\ cons[c].nap = MaxNap
        /\ ucfg[c].refresh_s = MaxNap

(***************************************************************************)
(* C23: a rendering failure in one consumer stops or corrupts no other     *)
(* part of the program: the step in which an exception leaves the render   *)
(* loop of a consumer ends that consumer's thread alone; the thread of the *)
(* other consumer, the producers' threads and stop flags, the servers, the *)
(* main thread and the process are as before, and so is the stored config. *)
(***************************************************************************)
FailsNow(c) == cons[c].pc # "failed" /\ cons'[c].pc = "failed"

C23_RenderFailureIsLocal ==
    [][\A c \in Consumers : FailsNow(c) =>
          /\ \A d \in Consumers \ {c} : cons'[d] = cons[d]
          /\ UNCHANGED <<tasks, thread, stopEv, summary, servers, mpc, running,
                         status, stopCalls>>
          /\ UNCHANGED <<heap, CONFIG, file, ucfg, wcfg, scfg>>]_vars

\* One consumer has failed; the other has drawn a whole frame since and
\* sleeps, the producers' threads are alive, both servers are started and
\* the main thread is in its wait loop.
C23_Witness ==
    \E c \in Consumers :
        /\ cons[c].pc = "failed"
        /\ \A d \in Consumers \ {c} : cons[d].pc = "sleep"
        /\ ProducerAlive("weather")
        /\ servers = {"config", "reboot"}
        /\ mpc = "wait" /\ running /\ ProcessRuns

(***************************************************************************)
(* C26: startup follows the fixed order: the config is loaded and saved    *)
(* before anything is started; then the assets, then the boot sound, then  *)
(* every producer, then every server, then the consumers; the main thread  *)
(* enters its wait loop after all of them.  No step of a later phase is    *)
(* issued before every step of the earlier phases.                         *)
(***************************************************************************)
Phase(x) ==
    CASE x = "assets" -> 2
      [] x = "boot_sound" -> 3
      [] x \in Producers -> 4
      [] x \in {"config_server", "reboot_server"} -> 5
      [] x \in Consumers -> 6

C26_StartupInPhaseOrder ==
    /\ started # <<>> => boot = "running"
    /\ \A i, j \in 1..Len(started) : i < j => Phase(started[i]) <= Phase(started[j])
    /\ mpc = "wait" =>
         {"assets", "boot_sound", "weather", "speech", "config_server",
          "reboot_server", "terminal"} \subseteq {started[i] : i \in 1..Len(started)}

(***************************************************************************)
(* C27: on shutdown stop() signals every consumer and every producer to    *)
(* stop and their loops exit; a consumer draws nothing on its device once  *)
(* stop() has cleaned the device up.                                       *)
(***************************************************************************)
Draws(c) == cons'[c].k = cons[c].k + 1

C27_NoDrawingAfterCleanup ==
    [][\A c \in Consumers : cleaned[c] => ~Draws(c)]_vars

(***************************************************************************)
(* C29: when an exception has left start() unhandled, the process ends     *)
(* with a status other than zero and after stop() has been called.         *)
(***************************************************************************)
C29_EscapedExceptionStopsAll ==
    (~ProcessRuns /\ escaped # "none") => (stopCalls > 0 /\ status = "nonzero")

(***************************************************************************)
(* C28: stop() always ends: each of its joins waits a second at the most,  *)
(* so the main thread leaves stop() even when a producer's or a consumer's *)
(* thread stays inside an external call and never exits.                   *)
(***************************************************************************)
InStop == mpc \in StopPcs

C28_StopTerminates == InStop ~> ~InStop

\* stop() has returned to main()'s handler or to the wait loop and the
\* process has ended, after joins of a weather thread and of an OLED thread
\* that were both still alive when the process ended.
C28_Witness ==
    /\ mpc = "exited" /\ stopCalls > 0
    /\ ProducerAlive("weather")
    /\ ConsumerAlive("oled") /\ ConsumerAlive("terminal")

(***************************************************************************)
(* C30: POST /save with a latitude or longitude that is no number is       *)
(* answered and its patch applied, with 0.0 for the field that is invalid  *)
(* and the submitted value for every field that is valid.                  *)
(***************************************************************************)
Submitted(f, name) ==
    IF FloatRaises(FormGet(f, name, "0")) THEN "0.0"
    ELSE Float(FormGet(f, name, "0"))

C30_InvalidFieldAloneFallsBack ==
    (form # <<>> /\ reply = "Saved") =>
        /\ sent # <<>>
        /\ sent.latitude = Submitted(form, "lat")
        /\ sent.longitude = Submitted(form, "lon")
        /\ sent.units = FormGet(form, "units", "imperial")


(***************************************************************************)
(* C38.  DEFAULT_CONFIG is never modified: whatever load_config,           *)
(* update_config, get_config and the callers that mutate their patches and *)
(* snapshots have done, the tree reachable from DEFAULT_CONFIG is the one  *)
(* the module built at import, so load_config always starts from the same  *)
(* defaults.                                                               *)
(***************************************************************************)
C38_DefaultsNeverModified == TreeOf(heap, DEFAULT_CONFIG) = DefaultTree

\* The stored tree has been loaded from the defaults and merged away from
\* them inside a nested section, and a caller has mutated its snapshot.
C38_Witness ==
    /\ boot = "running"
    /\ Lookup(Stored, <<"weather", "units">>) # Lookup(DefaultTree, <<"weather", "units">>)
    /\ \E t \in Threads : pc[t] = "mutated"


(***************************************************************************)
(* C36.  The config lock is released whenever update_config or get_config  *)
(* ends, also when the write inside update_config raises: the only holder  *)
(* of CONFIG_LOCK is a thread inside the with block of update_config       *)
(* (get_config takes and releases it within its one step), so a thread     *)
(* whose call has returned or raised holds nothing and the calls of the    *)
(* other threads go on to acquire the lock.                                *)
(***************************************************************************)
C36_LockReleasedAtEnd == \A t \in Threads : t \in lock => pc[t] = "upd_cs"

\* An update_config has failed in its write, and another thread, which
\* cannot have been inside the lock at that moment, is inside it now.
C36_Witness ==
    \E t, u \in Threads :
        /\ failed /\ pc[t] = "upd_raised"
        /\ u # t /\ u \in lock /\ pc[u] = "upd_cs"


(***************************************************************************)
(* C34.  When the weather task ends a polling cycle whose snapshot had     *)
(* weather.enabled = true (it goes to its sleep from the branch or from    *)
(* the fetch), the published summary is not the disabled sentinel          *)
(* "Weather: off", also when less than refresh_s has passed since the last *)
(* fetch.                                                                  *)
(***************************************************************************)
EndsEnabledCycle(i) ==
    /\ WTasks[i].pc \in {"branch", "fetch"} /\ WTasks[i].en
    /\ WTasks'[i].pc = "nap"

\* C34: no enabled cycle ends with "Weather: off" published.
C34_EnabledCycleReplacesOff ==
    [][ \A i \in 1..Len(WTasks) : EndsEnabledCycle(i) => summary' # DISABLED ]_vars


(***************************************************************************)
(* C35.  Stopped is terminal for a producer: stop() sets a flag that no    *)
(* step clears, and with the flag set no task of the producer goes into a  *)
(* polling cycle, so that a task spawned by a later start() exits without  *)
(* fetching or listening.                                                  *)
(***************************************************************************)
InCycle(p) == IF p = "weather" THEN {"branch", "fetch"} ELSE {"wait"}

StopFlagStays == \A p \in Producers : stopEv[p] => stopEv'[p]

NoCycleBegunWhenStopped ==
    \A p \in Producers : \A i \in 1..Len(tasks[p]) :
        (stopEv[p] /\ tasks'[p][i].pc \in InCycle(p)) => tasks[p][i].pc \in InCycle(p)

\* C35 as stated: the flag stays set, no cycle is begun, and after stop()
\* the summary cell is never updated again.
C35_NeverUpdatedAfterStop ==
    [][ /\ StopFlagStays
        /\ NoCycleBegunWhenStopped
        /\ stopEv["weather"] => summary' = summary ]_vars

\* C35 as the code has it: the flag stays set, no cycle is begun, and after
\* stop() the cell is written only by the cycle that was under way when the
\* flag was set.
C35_OnlyTheCycleUnderWayPublishes ==
    [][ /\ StopFlagStays
        /\ NoCycleBegunWhenStopped
        /\ (stopEv["weather"] /\ summary' # summary) =>
              \E i \in 1..Len(WTasks) :
                  WTasks[i].pc \in InCycle("weather") /\ WTasks'[i].pc = "nap" ]_vars

\* stop() was called during a fetch, the fetch published its report after
\* that, the thread ended at its next loop test, and a later start()
\* spawned a second thread, which has exited.
C35_Witness ==
    /\ stopEv["weather"] /\ Len(WTasks) = 2
    /\ WTasks[1].pc = "exited" /\ WTasks[2].pc = "exited"
    /\ summary = Report


(***************************************************************************)
(* C39.  POST /save changes only weather.enabled, weather.latitude,        *)
(* weather.longitude, weather.units, background.enabled, background.path,  *)
(* audio.enabled and audio.path: when its update_config has merged the     *)
(* patch, weather.refresh_s and the terminal, oled and web sections are as *)
(* they were before the call, so is every other key outside the eight, and *)
(* background.path and audio.path are the fixed paths, whether or not a    *)
(* file came with the request.                                             *)
(***************************************************************************)
SaveKeys ==
    { <<"weather", "enabled">>, <<"weather", "latitude">>, <<"weather", "longitude">>,
      <<"weather", "units">>, <<"background", "enabled">>, <<"background", "path">>,
      <<"audio", "enabled">>, <<"audio", "path">> }

\* The key paths at or below one of the eight keys, and the sections that
\* hold them.
SaveTouches(p) ==
    \/ \E q \in SaveKeys : Len(p) >= Len(q) /\ SubSeq(p, 1, Len(q)) = q
    \/ \E q \in SaveKeys : p = <<q[1]>>

SaveMerged == pc[1] \in {"upd_ret", "upd_raised"}

C39_SaveChangesOnlyItsKeys ==
    SaveMerged =>
        /\ \A p \in Paths(preTree) \cup Paths(Stored) :
             ~SaveTouches(p) => Lookup(Stored, p) = Lookup(preTree, p)
        /\ Lookup(Stored, <<"weather", "refresh_s">>) = Lookup(preTree, <<"weather", "refresh_s">>)
        /\ \A sec \in {"terminal", "oled", "web"} :
             Lookup(Stored, <<sec>>) = Lookup(preTree, <<sec>>)
        /\ Lookup(Stored, <<"background", "path">>) = S(BACKGROUND_PATH)
        /\ Lookup(Stored, <<"audio", "path">>) = S(BOOT_SOUND_PATH)

\* A request without an uploaded file has been merged into a tree whose
\* paths and refresh_s were not the default ones.
C39_Witness ==
    /\ SaveMerged /\ form.background = NoField
    /\ Lookup(preTree, <<"background", "path">>) = S("/home/pi/own.png")
    /\ Lookup(Stored, <<"weather", "refresh_s">>) = S("15")
    /\ Lookup(Stored, <<"background", "fit">>) = S("cover")
    /\ Lookup(Stored, <<"weather", "units">>) = S("imperial")


(***************************************************************************)
(* C33.  A display that is not there or that fails in drawing leaves the   *)
(* process running with OLEDDisplay.is_active false, and false stays: once *)
(* the flag of the constructed display is false no step sets it, no OLED   *)
(* thread is started for a display whose flag is false, and no step of     *)
(* draw_all or of stop() calls the device while the flag is false.         *)
(***************************************************************************)
OledBuilt == mpc # "main"

\* The steps that call the device: a part of draw_all is drawn or fails in
\* the drawing, and display.cleanup() of stop().
CallsDevice ==
    \/ cons["oled"].pc = "draw" /\ cons'["oled"] # cons["oled"]
    \/ mpc = "oled_cleanup" /\ mpc' # mpc

\* The display is found missing by the constructor, or a drawing raises.
Degrades == ~isActive' /\ (isActive \/ (mpc = "main" /\ mpc' = "start"))

InactiveStays == (OledBuilt /\ ~isActive) => ~isActive'

NoTaskForInactive ==
    (cons["oled"].pc = "none" /\ cons'["oled"].pc # "none") => isActive

\* C33: inactive is absorbing, starts no OLED thread, is followed by no
\* call on the device, and the step that clears the flag leaves the process
\* running.
C33_InactiveIsAbsorbing ==
    [][ /\ InactiveStays
        /\ NoTaskForInactive
        /\ CallsDevice => isActive
        /\ Degrades => status' = "running" ]_vars


(***************************************************************************)
(* C31.  The summary cell of the WeatherProvider holds "Weather: --" when  *)
(* the provider has been constructed; it is written only by the thread     *)
(* running _run, inside `with self._lock`, that thread being the only one  *)
(* of the provider alive, and by no render thread or control-plane step;   *)
(* and a get_summary() inside its with block finds no writer inside and a  *)
(* whole value in the cell: the initial sentinel or the argument of one    *)
(* _set_summary call.                                                      *)
(***************************************************************************)
Published == {UNAVAILABLE, DISABLED} \cup {FetchResult(out) : out \in FetchOutcomes}

WrittenByTheTask ==
    \E i \in 1..Len(WTasks) :
        /\ WTasks[i].pc \in {"set_off", "set_result"} /\ WTasks'[i].pc = "nap"
        /\ slock = {"weather"}
        /\ AliveTasks("weather") = {i}

C31_SummaryCellHasOneWriter ==
    /\ summary = UNAVAILABLE
    /\ [][ summary' # summary => WrittenByTheTask ]_vars
    /\ [](\A c \in Consumers : c \in slock => (slock = {c} /\ summary \in Published))

\* A render thread is inside get_summary() and finds the report that the
\* weather thread published before the fetch it is in now.
C31_Witness ==
    \E c \in Consumers, i \in 1..Len(WTasks) :
        c \in slock /\ summary = Report /\ WTasks[i].pc = "fetch"

(***************************************************************************)
(* C37.  No thread holds CONFIG_LOCK and the lock of the summary cell at   *)
(* the same time: the weather thread has left get_config() when it enters  *)
(* _set_summary, a render thread has left get_config() when it enters      *)
(* get_summary(), and update_config touches no summary cell; so no thread  *)
(* waits for one lock while it holds the other.                            *)
(***************************************************************************)
HoldsBoth(t, name) == t \in lock /\ name \in slock

C37_NeverBothLocks ==
    /\ ~HoldsBoth(WeatherThread, "weather")
    /\ \A c \in Consumers : ~HoldsBoth(ConsumerThread(c), c)

\* Both locks are held, by different threads: a render thread is inside
\* get_config() while the weather thread is inside _set_summary.
C37_Witness ==
    \E c \in Consumers : ConsumerThread(c) \in lock /\ "weather" \in slock


(***************************************************************************)
(* C40.  PiOLED runs at most one loading animation: at most one thread of  *)
(* animate() is drawing; when stop_loading has returned and no             *)
(* start_loading has followed, none is drawing; and between the calls      *)
(* _loading_active is true exactly while a thread of animate() is running, *)
(* also when the thread before did not end within the join timeout.        *)
(***************************************************************************)
AnimDrawing == {i \in 1..Len(anim) : anim[i].pc = "draw"}
AnimRunning == {i \in 1..Len(anim) : AnimAlive(anim[i])}

AtMostOneDraws == Cardinality(AnimDrawing) <= 1

\* C40: one animation at most, none after stop_loading, and the flag tells
\* whether one is running.
C40_OneLoadingAnimation ==
    /\ AtMostOneDraws
    /\ (ldpc.at = "idle" /\ ~ldActive) => AnimDrawing = {}
    /\ ldpc.at = "idle" => (ldActive <=> AnimRunning # {})


(***************************************************************************)
(* C32.  No step of a producer's thread (weather polling, speech           *)
(* listening) and no step of a render thread (terminal or OLED) changes    *)
(* the stored config tree or config.json, and no step of a render thread   *)
(* writes the summary cell: the tree changes only in the steps of          *)
(* update_config, which the web form calls.                                *)
(***************************************************************************)
ProducerStep == tasks' # tasks
ConsumerStep == cons' # cons

ConfigStays ==
    /\ TreeOf(heap', CONFIG') = TreeOf(heap, CONFIG)
    /\ file' = file
    /\ wcfg' = wcfg /\ scfg' = scfg /\ ucfg' = ucfg

C32_OnlyControlPlaneWritesConfig ==
    [][ /\ (ProducerStep \/ ConsumerStep) => ConfigStays
        /\ (ConsumerStep /\ ~ProducerStep) => summary' = summary ]_vars

\* The web form has switched weather off and the weather thread has
\* published the sentinel for it, while the speech thread listens and the
\* OLED thread has drawn a part of its frame.
C32_Witness ==
    /\ ~wcfg.enabled /\ summary = DISABLED
    /\ tasks["speech"][1].pc = "wait"
    /\ cons["oled"].pc = "draw" /\ cons["oled"].k > 0

====
